---- MODULE Spec2Model ----
(***************************************************************************)
(* GraphicsGeometry: the geometry batching and draw-call construction      *)
(* pipeline (packages/graphics/src/GraphicsGeometry.ts).                   *)
(*                                                                         *)
(* Conventions.  JS arrays are TLA+ sequences: the JS element k is the     *)
(* element k + 1 of the sequence, and every offset stored in the state     *)
(* (start, attribStart, index values, texture locations) keeps its JS      *)
(* 0-based value.  An optional reference is a sequence of length 0 (null)  *)
(* or 1; an optional object id is 0 (null) or the id.  alpha is kept in    *)
(* halves (0, 1, 2 stand for 0, 0.5, 1.0) and a uv coordinate is an exact  *)
(* fraction <<numerator, denominator>> in lowest terms.                    *)
(***************************************************************************)
EXTENDS Integers, Sequences, FiniteSets, TLC

(***************************************************************************)
(* Bounds of the model.                                                    *)
(***************************************************************************)
\* most shape records one geometry holds in the general specification
MaxShapes == 3
\* cap of the dirty counter: no drawShape/drawHole/clear once it is reached
MaxDirty == 3

(***************************************************************************)
(* Program constants.                                                      *)
(***************************************************************************)
BATCHABLE_SIZE == 100
MAX_TEXTURES == 8
MAX_UINT16 == 65535

TRIANGLES == "TRIANGLES"
LINES == "LINES"
REPEAT == "REPEAT"
CLAMP == "CLAMP"

(***************************************************************************)
(* Sequence and arithmetic helpers.                                        *)
(***************************************************************************)
Range(s) == {s[i] : i \in DOMAIN s}

Last(s) == s[Len(s)]

Front(s) == SubSeq(s, 1, Len(s) - 1)

Max(a, b) == IF a >= b THEN a ELSE b

Min(a, b) == IF a <= b THEN a ELSE b

Abs(a) == IF a < 0 THEN -a ELSE a

RECURSIVE Gcd(_, _)
Gcd(a, b) == IF b = 0 THEN a ELSE Gcd(b, a % b)

\* the fraction n / d (d # 0) in lowest terms with a positive denominator
Rat(n, d) ==
    LET k == Gcd(Abs(n), Abs(d))
        s == IF d < 0 THEN -1 ELSE 1
    IN  <<(s * n) \div k, (s * d) \div k>>

RatAdd(p, q) == Rat((p[1] * q[2]) + (q[1] * p[2]), p[2] * q[2])

RatMul(p, q) == Rat(p[1] * q[1], p[2] * q[2])

RatLess(p, q) == p[1] * q[2] < q[1] * p[2]

\* Math.floor of a fraction
RatFloor(p) == p[1] \div p[2]

\* s with the JS elements offset .. offset + size - 1 set to v, grown to
\* Math.max(length, offset + size); an element never written is 0
Fill(s, v, size, offset) ==
    [k \in 1..Max(Len(s), offset + size) |->
        IF k > offset /\ k <= offset + size THEN v
        ELSE IF k <= Len(s) THEN s[k] ELSE 0]

(***************************************************************************)
(* Textures.  Texture t (1 .. 10) is the full frame of base texture t, a   *)
(* 2 x 2 image; texture 11 is the 1 x 1 frame at (1, 0) of base texture 1  *)
(* (a region of a packed atlas).                                           *)
(***************************************************************************)
BaseTextures == 1..10

AtlasTexture == 11

Textures == BaseTextures \cup {AtlasTexture}

baseTextureOf(t) == IF t = AtlasTexture THEN 1 ELSE t

frameOf(t) ==
    IF t = AtlasTexture THEN [x |-> 1, y |-> 0, width |-> 1, height |-> 1]
    ELSE [x |-> 0, y |-> 0, width |-> 2, height |-> 2]

baseSize == [width |-> 2, height |-> 2]

NewBaseTexture ==
    [valid |-> TRUE, wrapMode |-> CLAMP, touched |-> 0,
     batchEnabled |-> 0, batchLocation |-> 0]

(***************************************************************************)
(* Styles, matrices, shapes and GraphicsData records.                      *)
(***************************************************************************)
Matrix(a, b, c, d, tx, ty) ==
    [a |-> a, b |-> b, c |-> c, d |-> d, tx |-> tx, ty |-> ty]

Style(visible, color, alpha, texture, native) ==
    [visible |-> visible, color |-> color, alpha |-> alpha,
     texture |-> texture, matrix |-> <<>>, native |-> native]

Rectangle(x, y, w, h) ==
    [type |-> "RECT", x |-> x, y |-> y, width |-> w, height |-> h,
     points |-> <<>>]

Polygon(pts) ==
    [type |-> "POLY", x |-> 0, y |-> 0, width |-> 0, height |-> 0,
     points |-> pts]

\* new GraphicsData(shape, fillStyle, lineStyle, matrix); styles and matrix
\* are optional references
GraphicsData(shape, fillStyle, lineStyle, matrix) ==
    [shape |-> shape, fillStyle |-> fillStyle, lineStyle |-> lineStyle,
     matrix |-> matrix, holes |-> <<>>, points |-> <<>>]

(***************************************************************************)
(* Tessellation capability (utils/buildRectangle, buildPoly, buildLine).   *)
(***************************************************************************)
\* FILL_COMMANDS[type].build: the flattened point list of a shape
build(shape) ==
    IF shape.type = "RECT"
    THEN <<shape.x, shape.y,
           shape.x + shape.width, shape.y,
           shape.x + shape.width, shape.y + shape.height,
           shape.x, shape.y + shape.height>>
    ELSE shape.points

\* triangle fan over n vertices that start at vertex vertPos
FanIndices(n, vertPos) ==
    IF n < 3 THEN <<>>
    ELSE [k \in 1..(3 * (n - 2)) |->
            LET t == (k - 1) \div 3
                c == (k - 1) % 3
            IN  IF c = 0 THEN vertPos ELSE vertPos + t + c]

\* FILL_COMMANDS[type].triangulate for a shape without holes: the vertices
\* and the indices it appends when the geometry holds vertPos vertices
triangulate(data, vertPos) ==
    LET p == data.points
    IN  IF data.shape.type = "RECT"
        THEN [verts |-> <<p[1], p[2], p[3], p[4], p[7], p[8], p[5], p[6]>>,
              indices |-> <<vertPos, vertPos + 1, vertPos + 2,
                            vertPos + 1, vertPos + 2, vertPos + 3>>]
        ELSE IF Len(p) >= 6
             THEN [verts |-> p, indices |-> FanIndices(Len(p) \div 2, vertPos)]
             ELSE [verts |-> <<>>, indices |-> <<>>]

RECURSIVE holePoints(_, _)
holePoints(holes, i) ==
    IF i > Len(holes) THEN <<>>
    ELSE holes[i].points \o holePoints(holes, i + 1)

\* buildPoly.triangulate: the outline and the outlines of the holes become
\* the vertices of one triangulation
triangulatePoly(data, vertPos) ==
    LET p == data.points \o holePoints(data.holes, 1)
    IN  IF Len(data.points) >= 6
        THEN [verts |-> p, indices |-> FanIndices(Len(p) \div 2, vertPos)]
        ELSE [verts |-> <<>>, indices |-> <<>>]

\* buildLine with a native style: one vertex per point, one index pair per
\* segment, the outline closed
nativeLine(p, vertPos) ==
    LET n == Len(p) \div 2
    IN  IF n < 2 THEN [verts |-> <<>>, indices |-> <<>>]
        ELSE [verts |-> p,
              indices |-> [k \in 1..(2 * n) |->
                  LET seg == (k - 1) \div 2
                      c == (k - 1) % 2
                  IN  vertPos + ((seg + c) % n)]]

\* buildLine with a triangulated style: two vertices per point, joined as a
\* strip of triangles
nonNativeLine(p, vertPos) ==
    LET n == Len(p) \div 2
    IN  IF n < 2 THEN [verts |-> <<>>, indices |-> <<>>]
        ELSE [verts |-> [k \in 1..(4 * n) |->
                  LET v == (k - 1) \div 4
                      c == (k - 1) % 2
                  IN  p[(2 * v) + c + 1]],
              indices |-> [k \in 1..(3 * ((2 * n) - 2)) |->
                  vertPos + ((k - 1) \div 3) + ((k - 1) % 3)]]

\* buildLine(data, geometry): data is a shape record or a hole
buildLine(data, vertPos) ==
    IF data.lineStyle[1].native
    THEN nativeLine(data.points, vertPos)
    ELSE nonNativeLine(data.points, vertPos)

(***************************************************************************)
(* Pooled objects (utils/BatchPart, core BatchDrawCall and                 *)
(* BatchTextureArray).  Objects live in a heap, a sequence indexed by      *)
(* object id; lists and pools hold ids.                                    *)
(***************************************************************************)
\* new BatchPart(): the constructor calls reset()
NewBatchPart ==
    [style |-> <<>>, start |-> 0, size |-> 0,
     attribStart |-> 0, attribSize |-> 0]

BatchPart_reset(part) == NewBatchPart

BatchPart_begin(part, style, startIndex, attribStart) ==
    [BatchPart_reset(part) EXCEPT !.style = <<style>>,
                                  !.start = startIndex,
                                  !.attribStart = attribStart]

BatchPart_end(part, endIndex, endAttrib) ==
    [part EXCEPT !.attribSize = endAttrib - part.attribStart,
                 !.size = endIndex - part.start]

\* new BatchDrawCall() with a new BatchTextureArray()
NewDrawCall ==
    [texArray |-> [elements |-> <<>>, count |-> 0],
     type |-> TRIANGLES, start |-> 0, size |-> 0]

\* BatchTextureArray.clear(): the bound elements become null
TexArray_clear(texArray) ==
    [elements |-> [k \in DOMAIN texArray.elements |->
                      IF k <= texArray.count THEN 0 ELSE texArray.elements[k]],
     count |-> 0]

\* texArray.elements[texArray.count++] = texture
TexArray_push(texArray, texture) ==
    [elements |-> [k \in 1..Max(Len(texArray.elements), texArray.count + 1) |->
                      IF k = texArray.count + 1 THEN texture
                      ELSE texArray.elements[k]],
     count |-> texArray.count + 1]

(***************************************************************************)
(* The state of one GraphicsGeometry after construction, and the         *)
(* instrumentation kept beside it.                                         *)
(***************************************************************************)
NoTypedArray == [bytes |-> 0, data |-> <<>>]

NewGeometry ==
    [points |-> <<>>, colors |-> <<>>, uvs |-> <<>>, indices |-> <<>>,
     textureIds |-> <<>>, graphicsData |-> <<>>, drawCalls |-> <<>>,
     batches |-> <<>>, uvsFloat32 |-> <<>>, indicesUint16 |-> NoTypedArray,
     batchable |-> FALSE, batchDirty |-> -1, dirty |-> 0, cacheDirty |-> -1,
     clearDirty |-> 0, shapeIndex |-> 0, boundsDirty |-> -1,
     buffer |-> [byteLength |-> 0, words |-> <<>>],
     indexBuffer |-> NoTypedArray,
     _bounds |-> <<>>, boundsPadding |-> 0]

\* lastOp: the last call made on the geometry; tessCount[i]: how often the
\* build step ran for shape record i since it was drawn; tessLast: the shape
\* records the last updateBatches() tessellated; usages: for every style
\* usage that appended vertices, its style, its shape record, its vertex
\* range and the position in batches of the part it went to; holesAtBuild[i]:
\* the number of holes record i had when it was tessellated; repeated: the
\* last two calls were both updateBatches(), with no texture becoming valid or
\* invalid in between; drawOnly: the geometry saw no drawHole and no clear;
\* boundsComputed: the last read of bounds called calculateBounds; readAt:
\* the value of dirty at the last read of bounds, -1 before the first read
\* and after a clear
NewProbe ==
    [lastOp |-> "new", tessCount |-> <<>>, tessLast |-> <<>>,
     usages |-> <<>>, holesAtBuild |-> <<>>, repeated |-> FALSE,
     drawOnly |-> TRUE, boundsComputed |-> FALSE, readAt |-> -1]

(***************************************************************************)
(* A world is what one call on one geometry reads and writes: the          *)
(* geometry g, its instrumentation pr, the two process-wide pools with the *)
(* heaps of their objects, the base textures and BaseTexture._globalBatch. *)
(***************************************************************************)
MakeWorld(g, pr, bp, dc, bpool, dcpool, tex, tick) ==
    [g |-> g, pr |-> pr, bp |-> bp, dc |-> dc, bpool |-> bpool,
     dcpool |-> dcpool, tex |-> tex, tick |-> tick]

(***************************************************************************)
(* invalidate, clear, drawShape, drawHole.                                 *)
(***************************************************************************)
invalidate(w) ==
    LET g == w.g
    IN  [w EXCEPT
          !.g = [g EXCEPT !.boundsDirty = -1,
                          !.dirty = g.dirty + 1,
                          !.batchDirty = g.batchDirty + 1,
                          !.shapeIndex = 0,
                          !.points = <<>>,
                          !.colors = <<>>,
                          !.uvs = <<>>,
                          !.indices = <<>>,
                          !.textureIds = <<>>,
                          !.drawCalls = <<>>,
                          !.batches = <<>>],
          !.dc = [id \in DOMAIN w.dc |->
                    IF id \in Range(g.drawCalls)
                    THEN [w.dc[id] EXCEPT !.texArray = TexArray_clear(@)]
                    ELSE w.dc[id]],
          !.dcpool = w.dcpool \o g.drawCalls,
          !.bp = [id \in DOMAIN w.bp |->
                    IF id \in Range(g.batches)
                    THEN BatchPart_reset(w.bp[id])
                    ELSE w.bp[id]],
          !.bpool = w.bpool \o g.batches]

\* a clear() that does not look at graphicsData.length
clear_always(w) ==
    [invalidate(w) EXCEPT !.g.clearDirty = @ + 1,
                          !.g.graphicsData = <<>>,
                          !.pr = [NewProbe EXCEPT !.lastOp = "clear",
                                                  !.drawOnly = FALSE]]

clear(w) ==
    IF Len(w.g.graphicsData) > 0
    THEN LET w1 == invalidate(w)
         IN  [w1 EXCEPT !.g.clearDirty = @ + 1,
                        !.g.graphicsData = <<>>,
                        !.pr = [NewProbe EXCEPT !.lastOp = "clear",
                                                !.drawOnly = FALSE]]
    ELSE [w EXCEPT !.pr.lastOp = "clear", !.pr.repeated = FALSE,
                   !.pr.drawOnly = FALSE]

\* a drawShape that leaves the dirty counter alone
drawShape_quiet(w, shape, fillStyle, lineStyle, matrix) ==
    [w EXCEPT
      !.g.graphicsData = Append(@, GraphicsData(shape, fillStyle, lineStyle, matrix)),
      !.pr.lastOp = "drawShape",
      !.pr.repeated = FALSE,
      !.pr.tessCount = Append(@, 0),
      !.pr.holesAtBuild = Append(@, 0)]

drawShape(w, shape, fillStyle, lineStyle, matrix) ==
    [w EXCEPT
      !.g.graphicsData = Append(@, GraphicsData(shape, fillStyle, lineStyle, matrix)),
      !.g.dirty = @ + 1,
      !.pr.lastOp = "drawShape",
      !.pr.repeated = FALSE,
      !.pr.tessCount = Append(@, 0),
      !.pr.holesAtBuild = Append(@, 0)]

\* the value drawHole returns: null when no shape exists, else the geometry
drawHoleReturnsNull(w) == Len(w.g.graphicsData) = 0

\* a hole that keeps the null line style it was constructed with
drawHole_ownStyle(w, shape, matrix) ==
    IF Len(w.g.graphicsData) = 0
    THEN [w EXCEPT !.pr.lastOp = "drawHole", !.pr.repeated = FALSE,
                   !.pr.drawOnly = FALSE]
    ELSE [w EXCEPT !.g.graphicsData[Len(w.g.graphicsData)].holes =
                        Append(@, GraphicsData(shape, <<>>, <<>>, matrix)),
                   !.g.dirty = @ + 1,
                   !.pr.lastOp = "drawHole",
                   !.pr.repeated = FALSE,
                   !.pr.drawOnly = FALSE]

drawHole(w, shape, matrix) ==
    IF Len(w.g.graphicsData) = 0
    THEN [w EXCEPT !.pr.lastOp = "drawHole", !.pr.repeated = FALSE,
                   !.pr.drawOnly = FALSE]
    ELSE LET n == Len(w.g.graphicsData)
             lastShape == w.g.graphicsData[n]
             data == [GraphicsData(shape, <<>>, <<>>, matrix)
                        EXCEPT !.lineStyle = lastShape.lineStyle]
         IN  [w EXCEPT !.g.graphicsData[n].holes = Append(@, data),
                       !.g.dirty = @ + 1,
                       !.pr.lastOp = "drawHole",
                       !.pr.repeated = FALSE,
                       !.pr.drawOnly = FALSE]

(***************************************************************************)
(* _compareStyles and validateBatching.                                    *)
(***************************************************************************)
\* styleA.color + styleA.alpha, in halves
colorAlphaKey(style) == (2 * style.color) + style.alpha

\* a comparison that does not look at the base texture
_compareStyles_anyTexture(styleA, styleB) ==
    IF Len(styleA) = 0 \/ Len(styleB) = 0 THEN FALSE
    ELSE IF colorAlphaKey(styleA[1]) # colorAlphaKey(styleB[1]) THEN FALSE
    ELSE IF styleA[1].native # styleB[1].native THEN FALSE
    ELSE TRUE

\* styleA and styleB are optional references
_compareStyles(styleA, styleB) ==
    IF Len(styleA) = 0 \/ Len(styleB) = 0 THEN FALSE
    ELSE IF baseTextureOf(styleA[1].texture) # baseTextureOf(styleB[1].texture)
         THEN FALSE
    ELSE IF colorAlphaKey(styleA[1]) # colorAlphaKey(styleB[1]) THEN FALSE
    ELSE IF styleA[1].native # styleB[1].native THEN FALSE
    ELSE TRUE

styleTextureValid(w, style) ==
    Len(style) = 0 \/ w.tex[baseTextureOf(style[1].texture)].valid

\* a cache check that never finds the cache valid
cacheValid_never(w) == FALSE

\* the batch parts were computed for the current value of dirty
cacheValid(w) == w.g.dirty = w.g.cacheDirty

\* a validation that looks at the textures of the first shape record only
validateBatching_firstShape(w) ==
    IF cacheValid(w) \/ Len(w.g.graphicsData) = 0 THEN FALSE
    ELSE /\ styleTextureValid(w, w.g.graphicsData[1].fillStyle)
         /\ styleTextureValid(w, w.g.graphicsData[1].lineStyle)

validateBatching(w) ==
    IF cacheValid(w) \/ Len(w.g.graphicsData) = 0 THEN FALSE
    ELSE \A i \in DOMAIN w.g.graphicsData :
            /\ styleTextureValid(w, w.g.graphicsData[i].fillStyle)
            /\ styleTextureValid(w, w.g.graphicsData[i].lineStyle)

(***************************************************************************)
(* Points, uvs, colors and texture ids.                                    *)
(***************************************************************************)
transformPoints(points, matrix) ==
    [k \in 1..Len(points) |->
        LET v == (k - 1) \div 2
            x == points[(2 * v) + 1]
            y == points[(2 * v) + 2]
        IN  IF (k - 1) % 2 = 0
            THEN (matrix.a * x) + (matrix.c * y) + matrix.tx
            ELSE (matrix.b * x) + (matrix.d * y) + matrix.ty]

\* the uvs of adjustUvs for the uv range start .. finish - 1 (JS offsets).
\* Math.floor(u + eps): eps only absorbs floating point error and the model
\* computes with exact fractions.
adjustUvs(uvs, texture, start, size) ==
    LET finish == start + (size * 2)
        frame == frameOf(texture)
        scaleX == Rat(frame.width, baseSize.width)
        scaleY == Rat(frame.height, baseSize.height)
        xs == {RatFloor(uvs[k]) : k \in {j \in (start + 1)..finish : (j - start) % 2 = 1}}
        ys == {RatFloor(uvs[k]) : k \in {j \in (start + 1)..finish : (j - start) % 2 = 0}}
        minX == CHOOSE m \in xs : \A o \in xs : m <= o
        minY == CHOOSE m \in ys : \A o \in ys : m <= o
        offsetX == RatAdd(Rat(frame.x, frame.width), <<-minX, 1>>)
        offsetY == RatAdd(Rat(frame.y, frame.height), <<-minY, 1>>)
    IN  [k \in 1..Len(uvs) |->
            IF k <= start \/ k > finish THEN uvs[k]
            ELSE IF (k - start) % 2 = 1
                 THEN RatMul(RatAdd(uvs[k], offsetX), scaleX)
                 ELSE RatMul(RatAdd(uvs[k], offsetY), scaleY)]

\* matrix is an optional reference
addUvs(verts, uvs, texture, start, size, matrix) ==
    LET uvsStart == Len(uvs)
        frame == frameOf(texture)
        pushed == [k \in 1..(2 * size) |->
            LET index == (k - 1) \div 2
                x == verts[((start + index) * 2) + 1]
                y == verts[((start + index) * 2) + 2]
                nx == IF Len(matrix) > 0
                      THEN (matrix[1].a * x) + (matrix[1].c * y) + matrix[1].tx
                      ELSE x
                ny == IF Len(matrix) > 0
                      THEN (matrix[1].b * x) + (matrix[1].d * y) + matrix[1].ty
                      ELSE y
            IN  IF (k - 1) % 2 = 0 THEN Rat(nx, frame.width)
                ELSE Rat(ny, frame.height)]
        all == uvs \o pushed
    IN  IF frame.width < baseSize.width \/ frame.height < baseSize.height
        THEN adjustUvs(all, texture, uvsStart, size)
        ELSE all

\* v << 24 as a signed 32-bit value, for 0 <= v <= 255
ShiftLeft24(v) == IF v >= 128 THEN (v - 256) * 16777216 ELSE v * 16777216

\* premultiplyTint of @pixi/utils, alpha in halves
premultiplyTint(tint, alpha) ==
    IF alpha = 2 THEN ShiftLeft24(255) + tint
    ELSE IF alpha = 0 THEN 0
    ELSE LET R == (tint \div 65536) % 256
             G == (tint \div 256) % 256
             B == tint % 256
             R1 == ((R * alpha) + 1) \div 2
             G1 == ((G * alpha) + 1) \div 2
             B1 == ((B * alpha) + 1) \div 2
         IN  ShiftLeft24((alpha * 255) \div 2) + (R1 * 65536) + (G1 * 256) + B1

\* (color >> 16) + (color & 0xff00) + ((color & 0xff) << 16)
swizzle(color) ==
    (color \div 65536) + (((color \div 256) % 256) * 256) + ((color % 256) * 65536)

addColors(colors, color, alpha, size, offset) ==
    Fill(colors, premultiplyTint(swizzle(color), alpha), size, offset)

\* texture ids written one entry too far
addTextureIds_long(textureIds, id, size, offset) ==
    Fill(textureIds, id, size + 1, offset)

addTextureIds(textureIds, id, size, offset) ==
    Fill(textureIds, id, size, offset)

(***************************************************************************)
(* processFill, processLine, processHoles.                                 *)
(***************************************************************************)
appendTess(w, t) ==
    [w EXCEPT !.g.points = @ \o t.verts, !.g.indices = @ \o t.indices]

processFill(w, data) ==
    IF Len(data.holes) > 0
    THEN appendTess(w, triangulatePoly(data, Len(w.g.points) \div 2))
    ELSE appendTess(w, triangulate(data, Len(w.g.points) \div 2))

RECURSIVE processLineHoles(_, _, _)
processLineHoles(w, holes, i) ==
    IF i > Len(holes) THEN w
    ELSE processLineHoles(
            appendTess(w, buildLine(holes[i], Len(w.g.points) \div 2)),
            holes, i + 1)

processLine(w, data) ==
    processLineHoles(
        appendTess(w, buildLine(data, Len(w.g.points) \div 2)),
        data.holes, 1)

processHoles(holes) ==
    [i \in 1..Len(holes) |->
        LET hole == holes[i]
            pts == build(hole.shape)
        IN  [hole EXCEPT !.points =
                IF Len(hole.matrix) > 0
                THEN transformPoints(pts, hole.matrix[1])
                ELSE pts]]

(***************************************************************************)
(* updateBatches: the loop over the shape records.  The loop state s holds *)
(* the world and the locals batchPart (an object id or 0) and currentStyle *)
(* (an optional reference).                                                *)
(***************************************************************************)
\* BATCH_POOL.pop() || new BatchPart(): the world with the part allocated
\* and the id of the part
acquireBatchPart(w) ==
    IF Len(w.bpool) > 0
    THEN [w |-> [w EXCEPT !.bpool = Front(@)], id |-> Last(w.bpool)]
    ELSE [w |-> [w EXCEPT !.bp = Append(@, NewBatchPart)], id |-> Len(w.bp) + 1]

\* the style j (0: fill, 1: line) of shape record i
styleAt(w, i, j) ==
    IF j = 0 THEN w.g.graphicsData[i + 1].fillStyle[1]
    ELSE w.g.graphicsData[i + 1].lineStyle[1]

\* nextTexture.wrapMode = WRAP_MODES.REPEAT, then processFill or processLine
tessellateStyle(w, i, j) ==
    IF j = 0
    THEN processFill(
            [w EXCEPT !.tex[baseTextureOf(styleAt(w, i, 0).texture)].wrapMode = REPEAT],
            w.g.graphicsData[i + 1])
    ELSE processLine(
            [w EXCEPT !.tex[baseTextureOf(styleAt(w, i, 1).texture)].wrapMode = REPEAT],
            w.g.graphicsData[i + 1])

\* close batch if style is different; w2 is the world after the tessellation
closePart(s, w2, style, index, attribIndex) ==
    IF s.batchPart # 0 /\ ~_compareStyles(s.currentStyle, <<style>>)
    THEN [w |-> [w2 EXCEPT !.bp[s.batchPart] = BatchPart_end(@, index, attribIndex)],
          batchPart |-> 0,
          currentStyle |-> s.currentStyle]
    ELSE [s EXCEPT !.w = w2]

\* a part that is begun but not pushed on batches
beginPart_unlisted(acq, style, index, attribIndex) ==
    [w |-> [acq.w EXCEPT
             !.bp[acq.id] = BatchPart_begin(@, style, index, attribIndex)],
     batchPart |-> acq.id,
     currentStyle |-> <<style>>]

\* batchPart.begin(style, index, attribIndex); this.batches.push(batchPart)
beginPart(acq, style, index, attribIndex) ==
    [w |-> [acq.w EXCEPT
             !.bp[acq.id] = BatchPart_begin(@, style, index, attribIndex),
             !.g.batches = Append(@, acq.id)],
     batchPart |-> acq.id,
     currentStyle |-> <<style>>]

\* spawn new batch if its first batch or previous was closed
openPart(s, style, index, attribIndex) ==
    IF s.batchPart = 0
    THEN beginPart(acquireBatchPart(s.w), style, index, attribIndex)
    ELSE s

\* this.addUvs(...) for the vertices appended since attribIndex
withUvs(s, style, i, attribIndex) ==
    [s EXCEPT
      !.w.g.uvs = addUvs(s.w.g.points, @, style.texture, attribIndex,
                         (Len(s.w.g.points) \div 2) - attribIndex, style.matrix),
      !.w.pr.usages = Append(@,
          [style |-> style, shape |-> i, attribStart |-> attribIndex,
           size |-> (Len(s.w.g.points) \div 2) - attribIndex,
           part |-> Len(s.w.g.batches)])]

\* a loop body without the test of the number of appended vertices
afterTessellation_noSkip(s, w2, style, i, index, attribIndex) ==
    withUvs(
        openPart(closePart(s, w2, style, index, attribIndex),
                 style, index, attribIndex),
        style, i, attribIndex)

\* the rest of the loop body once the style was tessellated into w2
afterTessellation(s, w2, style, i, index, attribIndex) ==
    IF (Len(w2.g.points) \div 2) - attribIndex = 0 THEN [s EXCEPT !.w = w2]
    ELSE withUvs(
            openPart(closePart(s, w2, style, index, attribIndex),
                     style, index, attribIndex),
            style, i, attribIndex)

processStyle(s, i, j) ==
    IF ~styleAt(s.w, i, j).visible THEN s
    ELSE afterTessellation(s, tessellateStyle(s.w, i, j), styleAt(s.w, i, j), i,
                           Len(s.w.g.indices), Len(s.w.g.points) \div 2)

\* command.build(data) and transformPoints(data.points, data.matrix)
withPoints(data) ==
    [data EXCEPT !.points =
        IF Len(data.matrix) > 0
        THEN transformPoints(build(data.shape), data.matrix[1])
        ELSE build(data.shape)]

\* if (fillStyle.visible || lineStyle.visible) this.processHoles(data.holes)
withHoles(data) ==
    IF data.fillStyle[1].visible \/ data.lineStyle[1].visible
    THEN [data EXCEPT !.holes = processHoles(@)]
    ELSE data

\* the head of the loop body for shape record i
beginShape(s, i) ==
    [s EXCEPT !.w.g.shapeIndex = @ + 1,
              !.w.g.graphicsData[i + 1] = withHoles(withPoints(@)),
              !.w.pr.tessCount[i + 1] = @ + 1,
              !.w.pr.tessLast = Append(@, i),
              !.w.pr.holesAtBuild[i + 1] = Len(s.w.g.graphicsData[i + 1].holes)]

processShape(s, i) ==
    processStyle(processStyle(beginShape(s, i), i, 0), i, 1)

RECURSIVE shapeLoop(_, _)
shapeLoop(s, i) ==
    IF i >= Len(s.w.g.graphicsData) THEN s
    ELSE shapeLoop(processShape(s, i), i + 1)

\* a loop that starts over from the first shape record
loopStart_zero(w) == 0

\* the first shape record the loop of updateBatches visits
loopStart(w) == w.g.shapeIndex

(***************************************************************************)
(* containsPoint.  Rectangle.contains, Polygon.contains and                *)
(* Matrix.applyInverse are collaborators of the geometry.                  *)
(***************************************************************************)
rectangleContains(shape, x, y) ==
    IF shape.width <= 0 \/ shape.height <= 0 THEN FALSE
    ELSE /\ x >= shape.x
         /\ x < shape.x + shape.width
         /\ y >= shape.y
         /\ y < shape.y + shape.height

\* the ray from (x, y) crosses the edge that ends in point i (0-based) and
\* starts in the point before it:
\* ((yi > y) !== (yj > y)) && (x < ((xj - xi) * ((y - yi) / (yj - yi))) + xi)
edgeCrossed(points, x, y, i) ==
    LET length == Len(points) \div 2
        j == IF i = 0 THEN length - 1 ELSE i - 1
        xi == points[(i * 2) + 1]
        yi == points[(i * 2) + 2]
        xj == points[(j * 2) + 1]
        yj == points[(j * 2) + 2]
    IN  /\ (yi > y) # (yj > y)
        /\ IF yj > yi
           THEN (x - xi) * (yj - yi) < (xj - xi) * (y - yi)
           ELSE (x - xi) * (yj - yi) > (xj - xi) * (y - yi)

\* inside flips once per crossed edge
polygonContains(shape, x, y) ==
    Cardinality({i \in 0..((Len(shape.points) \div 2) - 1) :
                    edgeCrossed(shape.points, x, y, i)}) % 2 = 1

contains(shape, point) ==
    IF shape.type = "RECT" THEN rectangleContains(shape, point[1], point[2])
    ELSE polygonContains(shape, point[1], point[2])

\* Matrix.applyInverse; id = 1 / determinant is exact for the matrices of
\* the model, whose determinant is 1 or -1
applyInverse(matrix, point) ==
    LET id == 1 \div ((matrix.a * matrix.d) - (matrix.c * matrix.b))
        x == point[1]
        y == point[2]
    IN  <<(matrix.d * id * x) - (matrix.c * id * y)
              + (((matrix.ty * matrix.c) - (matrix.tx * matrix.d)) * id),
          (matrix.a * id * y) - (matrix.b * id * x)
              + (((matrix.tx * matrix.b) - (matrix.ty * matrix.a)) * id)>>

\* tmpPoint: the point in the space of the shape record
localPoint(data, point) ==
    IF Len(data.matrix) > 0 THEN applyInverse(data.matrix[1], point)
    ELSE point

RECURSIVE hitHoleFrom(_, _, _)
\* the loop over data.holes from hole i on: hitHole
hitHoleFrom(holes, tmpPoint, i) ==
    IF i > Len(holes) THEN FALSE
    ELSE IF contains(holes[i].shape, tmpPoint) THEN TRUE
    ELSE hitHoleFrom(holes, tmpPoint, i + 1)

\* a body of the loop of containsPoint that does not skip invisible fills
hitShape_anyFill(data, point) ==
    /\ contains(data.shape, localPoint(data, point))
    /\ ~hitHoleFrom(data.holes, localPoint(data, point), 1)

\* the body of the loop of containsPoint returns true for shape record data
hitShape(data, point) ==
    /\ data.fillStyle[1].visible
    /\ contains(data.shape, localPoint(data, point))
    /\ ~hitHoleFrom(data.holes, localPoint(data, point), 1)

RECURSIVE containsPointFrom(_, _, _)
containsPointFrom(graphicsData, point, i) ==
    IF i > Len(graphicsData) THEN FALSE
    ELSE IF hitShape(graphicsData[i], point) THEN TRUE
    ELSE containsPointFrom(graphicsData, point, i + 1)

containsPoint(w, point) == containsPointFrom(w.g.graphicsData, point, 1)

(***************************************************************************)
(* The index buffer, isBatchable, packBatches.                             *)
(***************************************************************************)
\* a value stored into a typed array of the given element width; the model
\* never stores a value outside 0 .. 2^31 - 1 into a 32-bit array
toTyped(bytes, v) == IF bytes = 2 THEN v % 65536 ELSE v

TypedArray(bytes, values) ==
    [bytes |-> bytes, data |-> [k \in 1..Len(values) |-> toTyped(bytes, values[k])]]

\* an index width that is never raised
need32_never(attrib) == FALSE

need32(attrib) == attrib > MAX_UINT16

\* an index buffer of the same length that is kept as the last build left it
updateIndexBuffer_stale(w, attrib) ==
    IF w.g.indicesUint16.bytes # 0
       /\ Len(w.g.indices) = Len(w.g.indicesUint16.data)
       /\ need32(attrib) = (w.g.indicesUint16.bytes > 2)
    THEN w
    ELSE [w EXCEPT !.g.indicesUint16 =
            TypedArray(IF need32(attrib) THEN 4 ELSE 2, w.g.indices)]

\* prevent allocation when length is same as buffer
updateIndexBuffer(w, attrib) ==
    IF w.g.indicesUint16.bytes # 0
       /\ Len(w.g.indices) = Len(w.g.indicesUint16.data)
       /\ need32(attrib) = (w.g.indicesUint16.bytes > 2)
    THEN [w EXCEPT !.g.indicesUint16 = TypedArray(@.bytes, w.g.indices)]
    ELSE [w EXCEPT !.g.indicesUint16 =
            TypedArray(IF need32(attrib) THEN 4 ELSE 2, w.g.indices)]

\* a size test no geometry passes
belowBatchableSize_never(w) == FALSE

belowBatchableSize(w) == Len(w.g.points) < BATCHABLE_SIZE * 2

isBatchable(w) ==
    IF Len(w.g.points) > MAX_UINT16 * 2 THEN FALSE
    ELSE IF \E k \in DOMAIN w.g.batches : w.bp[w.g.batches[k]].style[1].native
         THEN FALSE
    ELSE belowBatchableSize(w)

\* the writes of the inner loop of packBatches for one batch part
packOne(typed, batch) ==
    [typed EXCEPT !.data =
        [k \in 1..Len(typed.data) |->
            IF k - 1 >= batch.start /\ k - 1 < batch.start + batch.size
            THEN toTyped(typed.bytes, typed.data[k] - batch.attribStart)
            ELSE typed.data[k]]]

RECURSIVE packBatchesLoop(_, _, _)
\* the index buffer after the loop of packBatches ran for the parts i ..
packBatchesLoop(w, typed, i) ==
    IF i > Len(w.g.batches) THEN typed
    ELSE packBatchesLoop(w, packOne(typed, w.bp[w.g.batches[i]]), i + 1)

\* uvsFloat32 keeps the exact fractions of uvs
packBatches(w) ==
    [w EXCEPT !.g.batchDirty = @ + 1,
              !.g.uvsFloat32 = w.g.uvs,
              !.g.indicesUint16 = packBatchesLoop(w, @, 1)]

(***************************************************************************)
(* buildDrawCalls and packAttributes.  The loop state s holds the world    *)
(* and the locals currentGroup (an object id), textureCount,               *)
(* currentTexture (a base texture or 0), native, drawMode, index and TICK. *)
(***************************************************************************)
\* a draw call read from the pool and left in it
acquireDrawCall_keep(w) ==
    IF Len(w.dcpool) > 0
    THEN [w |-> w, id |-> Last(w.dcpool)]
    ELSE [w |-> [w EXCEPT !.dc = Append(@, NewDrawCall)], id |-> Len(w.dc) + 1]

\* DRAW_CALL_POOL.pop(), or a new BatchDrawCall with a new BatchTextureArray
acquireDrawCall(w) ==
    IF Len(w.dcpool) > 0
    THEN [w |-> [w EXCEPT !.dcpool = Front(@)], id |-> Last(w.dcpool)]
    ELSE [w |-> [w EXCEPT !.dc = Append(@, NewDrawCall)], id |-> Len(w.dc) + 1]

\* a change of the primitive type that leaves room for one more texture
\* in the draw call
forcedTextureCount_short == MAX_TEXTURES - 1

\* the texture count that forces the batch to break on a change of the
\* primitive type
forcedTextureCount == MAX_TEXTURES

\* a budget check that lets one texture too many in
textureBudgetExhausted_late(textureCount) == textureCount = MAX_TEXTURES + 1

\* the draw call is full: the next unbound texture opens a new one
textureBudgetExhausted(textureCount) == textureCount = MAX_TEXTURES

\* if (native !== !!style.native): force the batch to break!
breakOnType(s, style) ==
    IF s.native # style.native
    THEN [s EXCEPT !.native = style.native,
                   !.drawMode = IF style.native THEN LINES ELSE TRIANGLES,
                   !.currentTexture = 0,
                   !.textureCount = forcedTextureCount,
                   !.TICK = @ + 1]
    ELSE s

\* this.drawCalls.push(currentGroup) for the draw call acquired in acq
pushGroup(s, acq) ==
    [s EXCEPT !.currentGroup = acq.id,
              !.w = [acq.w EXCEPT !.g.drawCalls = Append(@, acq.id)]]

\* a full draw call that is started over instead of being followed by
\* another one
nextGroup_reuse(s) == s

\* if (currentGroup.size > 0): go on with another draw call
nextGroup(s) ==
    IF s.w.dc[s.currentGroup].size > 0
    THEN pushGroup(s, acquireDrawCall(s.w))
    ELSE s

\* a draw call that is started over at index 0
resetGroup_zero(s) ==
    [s EXCEPT !.w.dc[s.currentGroup] =
        [@ EXCEPT !.start = 0,
                  !.size = 0,
                  !.texArray.count = 0,
                  !.type = s.drawMode]]

\* currentGroup.start = index; size = 0; texArray.count = 0; type = drawMode
resetGroup(s) ==
    [s EXCEPT !.w.dc[s.currentGroup] =
        [@ EXCEPT !.start = s.index,
                  !.size = 0,
                  !.texArray.count = 0,
                  !.type = s.drawMode]]

\* if (textureCount === MAX_TEXTURES)
breakIfFull(s) ==
    IF textureBudgetExhausted(s.textureCount)
    THEN resetGroup(nextGroup([s EXCEPT !.TICK = @ + 1, !.textureCount = 0]))
    ELSE s

\* the texture takes the next slot of the current draw call
bindSlot(s, nextTexture) ==
    [s EXCEPT
      !.w.tex[nextTexture] = [@ EXCEPT !.touched = 1,
                                       !.batchEnabled = s.TICK,
                                       !.batchLocation = s.textureCount,
                                       !.wrapMode = REPEAT],
      !.w.dc[s.currentGroup].texArray = TexArray_push(@, nextTexture),
      !.textureCount = @ + 1]

\* a texture that carries any mark counts as bound
bindIfNotEnabled_anyMark(s, nextTexture) ==
    IF s.w.tex[nextTexture].batchEnabled = 0
    THEN bindSlot(breakIfFull(s), nextTexture)
    ELSE s

\* if (nextTexture._batchEnabled !== TICK)
bindIfNotEnabled(s, nextTexture) ==
    IF s.w.tex[nextTexture].batchEnabled # s.TICK
    THEN bindSlot(breakIfFull(s), nextTexture)
    ELSE s

\* if (currentTexture !== nextTexture)
bindTexture(s, nextTexture) ==
    IF s.currentTexture # nextTexture
    THEN bindIfNotEnabled([s EXCEPT !.currentTexture = nextTexture], nextTexture)
    ELSE s

\* the tail of the loop body for the batch part data
accumulate(s, data) ==
    [s EXCEPT
      !.index = @ + data.size,
      !.w.dc[s.currentGroup].size = @ + data.size,
      !.w.g.colors = addColors(@, data.style[1].color, data.style[1].alpha,
                               data.attribSize, data.attribStart),
      !.w.g.textureIds = addTextureIds(@,
            s.w.tex[baseTextureOf(data.style[1].texture)].batchLocation,
            data.attribSize, data.attribStart)]

\* one iteration of the loop over batches
drawCallStep(s, i) ==
    accumulate(
        bindTexture(
            breakOnType(s, s.w.bp[s.w.g.batches[i]].style[1]),
            baseTextureOf(s.w.bp[s.w.g.batches[i]].style[1].texture)),
        s.w.bp[s.w.g.batches[i]])

RECURSIVE drawCallLoop(_, _)
drawCallLoop(s, i) ==
    IF i > Len(s.w.g.batches) THEN s
    ELSE drawCallLoop(drawCallStep(s, i), i + 1)

\* a position, uv, colour or texture id word of the attribute buffer; the
\* colour word is the unsigned 32-bit value of the number in colors, kept as
\* its two 16-bit halves
f32(v) == <<"f32", v>>

u32(v) == <<"u32", <<(v \div 65536) % 65536, v % 65536>>>>

attributeWord(g, i, c) ==
    IF c = 0 THEN f32(Rat(g.points[(i * 2) + 1], 1))
    ELSE IF c = 1 THEN f32(Rat(g.points[(i * 2) + 2], 1))
    ELSE IF c = 2 THEN f32(g.uvs[(i * 2) + 1])
    ELSE IF c = 3 THEN f32(g.uvs[(i * 2) + 2])
    ELSE IF c = 4 THEN u32(g.colors[i + 1])
    ELSE f32(Rat(g.textureIds[i + 1], 1))

\* this._buffer.update(glPoints); this._indexBuffer.update(indicesUint16)
packAttributes(w) ==
    [w EXCEPT
      !.g.buffer =
        [byteLength |-> Len(w.g.points) * 3 * 4,
         words |-> [p \in 1..(6 * (Len(w.g.points) \div 2)) |->
                      attributeWord(w.g, (p - 1) \div 6, (p - 1) % 6)]],
      !.g.indexBuffer = w.g.indicesUint16]

\* the draw calls of the last build go back to the pool
recycleDrawCalls(w) ==
    [w EXCEPT
      !.dc = [id \in DOMAIN w.dc |->
                IF id \in Range(w.g.drawCalls)
                THEN [w.dc[id] EXCEPT !.texArray = TexArray_clear(@)]
                ELSE w.dc[id]],
      !.dcpool = @ \o w.g.drawCalls,
      !.g.drawCalls = <<>>]

\* the locals of buildDrawCalls before its loop; acq holds the first draw call
firstGroup(acq, TICK) ==
    [w |-> [acq.w EXCEPT
             !.dc[acq.id] = [@ EXCEPT !.texArray.count = 0,
                                      !.start = 0,
                                      !.size = 0,
                                      !.type = TRIANGLES],
             !.g.drawCalls = Append(@, acq.id)],
     currentGroup |-> acq.id, textureCount |-> 0, currentTexture |-> 0,
     native |-> FALSE, drawMode |-> TRIANGLES, index |-> 0, TICK |-> TICK]

\* a compilation that does not write its last tick back to _globalBatch
finishDrawCalls_noStore(s) == packAttributes(s.w)

\* BaseTexture._globalBatch = TICK; this.packAttributes()
finishDrawCalls(s) == packAttributes([s.w EXCEPT !.tick = s.TICK])

buildDrawCalls(w) ==
    finishDrawCalls(
        drawCallLoop(
            firstGroup(acquireDrawCall(recycleDrawCalls(w)), w.tick + 1), 1))

(***************************************************************************)
(* updateBatches.                                                          *)
(***************************************************************************)
\* an incremental build that never goes on with the last batch part
resumedPart_none(w) == 0

\* the batch part an incremental build goes on with: the last one, if any
resumedPart(w) == IF Len(w.g.batches) > 0 THEN Last(w.g.batches) ELSE 0

resumedStyle(w, batchPart) ==
    IF batchPart # 0 THEN w.bp[batchPart].style ELSE <<>>

\* if (batchPart) batchPart.end(index, attrib)
closeLastPart(s) ==
    IF s.batchPart # 0
    THEN [s.w EXCEPT !.bp[s.batchPart] =
            BatchPart_end(@, Len(s.w.g.indices), Len(s.w.g.points) \div 2)]
    ELSE s.w

\* this.batchable = this.isBatchable(), then packBatches or buildDrawCalls
compileBatches(w) ==
    IF isBatchable(w)
    THEN packBatches([w EXCEPT !.g.batchable = TRUE])
    ELSE buildDrawCalls([w EXCEPT !.g.batchable = FALSE])

\* an updateBatches that leaves batchable alone when no batch part resulted
afterLoop_noFlag(w) ==
    IF Len(w.g.batches) = 0
    THEN w
    ELSE compileBatches(updateIndexBuffer(w, Len(w.g.points) \div 2))

\* updateBatches after its loop
afterLoop(w) ==
    IF Len(w.g.batches) = 0
    \* there are no visible styles in GraphicsData
    THEN [w EXCEPT !.g.batchable = TRUE]
    ELSE compileBatches(updateIndexBuffer(w, Len(w.g.points) \div 2))

\* updateBatches from this.cacheDirty = this.dirty on
rebuild(w) ==
    afterLoop(closeLastPart(
        shapeLoop([w |-> [w EXCEPT !.g.cacheDirty = w.g.dirty],
                   batchPart |-> resumedPart(w),
                   currentStyle |-> resumedStyle(w, resumedPart(w))],
                  loopStart(w))))

\* the instrumentation at the entry of updateBatches
enterUpdate(w) ==
    [w EXCEPT !.pr.lastOp = "updateBatches",
              !.pr.tessLast = <<>>,
              !.pr.repeated = (w.pr.lastOp = "updateBatches")]

updateBatches(w) ==
    IF Len(w.g.graphicsData) = 0 THEN [enterUpdate(w) EXCEPT !.g.batchable = TRUE]
    ELSE IF ~validateBatching(w) THEN enterUpdate(w)
    ELSE rebuild(enterUpdate(w))

(***************************************************************************)
(* The bounds getter and calculateBounds.  A Bounds box is <<>> while      *)
(* empty and <<minX, minY, maxX, maxY>> otherwise.                         *)
(***************************************************************************)
SetMin(S) == CHOOSE x \in S : \A y \in S : x <= y

SetMax(S) == CHOOSE x \in S : \A y \in S : x >= y

\* bounds.clear(); bounds.addVertexData(points, 0, points.length);
\* bounds.pad(boundsPadding, boundsPadding)
calculateBounds(w) ==
    [w EXCEPT !.g._bounds =
        IF Len(w.g.points) = 0 THEN <<>>
        ELSE <<SetMin({w.g.points[k] : k \in {j \in DOMAIN w.g.points : j % 2 = 1}})
                    - w.g.boundsPadding,
               SetMin({w.g.points[k] : k \in {j \in DOMAIN w.g.points : j % 2 = 0}})
                    - w.g.boundsPadding,
               SetMax({w.g.points[k] : k \in {j \in DOMAIN w.g.points : j % 2 = 1}})
                    + w.g.boundsPadding,
               SetMax({w.g.points[k] : k \in {j \in DOMAIN w.g.points : j % 2 = 0}})
                    + w.g.boundsPadding>>]

\* a getter that recomputes the box on every read
refreshBounds_always(w) ==
    calculateBounds([w EXCEPT !.g.boundsDirty = w.g.dirty,
                              !.pr.lastOp = "bounds",
                              !.pr.boundsComputed = TRUE,
                              !.pr.readAt = w.g.dirty])

\* the getter after its call of updateBatches
refreshBounds(w) ==
    IF w.g.boundsDirty # w.g.dirty
    THEN calculateBounds([w EXCEPT !.g.boundsDirty = w.g.dirty,
                                   !.pr.lastOp = "bounds",
                                   !.pr.boundsComputed = TRUE,
                                   !.pr.readAt = w.g.dirty])
    ELSE [w EXCEPT !.pr.lastOp = "bounds",
                   !.pr.boundsComputed = FALSE,
                   !.pr.readAt = w.g.dirty]

\* get bounds()
bounds(w) == refreshBounds(updateBatches(w))

(***************************************************************************)
(* The state: the geometries, the process-wide pools and heaps, the base   *)
(* textures, BaseTexture._globalBatch, and the instrumentation.            *)
(***************************************************************************)
VARIABLES geom, probe, batchParts, drawCallObjects, BATCH_POOL, DRAW_CALL_POOL,
          baseTex, globalBatch, pure, loader

vars == <<geom, probe, batchParts, drawCallObjects, BATCH_POOL, DRAW_CALL_POOL,
          baseTex, globalBatch, pure, loader>>

\* pure holds the arguments and the result of one call of a function that
\* is checked on its own; the specifications of whole geometries leave it
\* at NoCall
NoCall == [op |-> "none"]

\* loader holds the Loader of the loader specification; the specifications
\* of geometries construct none
NoLoader == <<>>

Geoms == {1, 2}

World(g) ==
    MakeWorld(geom[g], probe[g], batchParts, drawCallObjects, BATCH_POOL,
              DRAW_CALL_POOL, baseTex, globalBatch)

\* the state after the call that turned World(g) into w
Becomes(g, w) ==
    /\ geom' = [geom EXCEPT ![g] = w.g]
    /\ probe' = [probe EXCEPT ![g] = w.pr]
    /\ batchParts' = w.bp
    /\ drawCallObjects' = w.dc
    /\ BATCH_POOL' = w.bpool
    /\ DRAW_CALL_POOL' = w.dcpool
    /\ baseTex' = w.tex
    /\ globalBatch' = w.tick
    /\ pure' = pure
    /\ loader' = loader

Init ==
    /\ geom = [g \in Geoms |-> NewGeometry]
    /\ probe = [g \in Geoms |-> NewProbe]
    /\ batchParts = <<>>
    /\ drawCallObjects = <<>>
    /\ BATCH_POOL = <<>>
    /\ DRAW_CALL_POOL = <<>>
    /\ baseTex = [b \in BaseTextures |-> NewBaseTexture]
    /\ globalBatch = 0
    /\ pure = NoCall
    /\ loader = NoLoader

(***************************************************************************)
(* Inputs of the general specification.                                    *)
(***************************************************************************)
WHITE == 16777215

Invisible == Style(FALSE, WHITE, 2, 1, FALSE)

Square == Rectangle(0, 0, 2, 2)

Triangle == Polygon(<<0, 0, 4, 0, 0, 4>>)

Segment == Polygon(<<0, 0, 2, 2>>)

Translate(tx, ty) == Matrix(1, 0, 0, 1, tx, ty)

DrawInput(shape, fillStyle, lineStyle, matrix) ==
    [shape |-> shape, fillStyle |-> fillStyle, lineStyle |-> lineStyle,
     matrix |-> matrix]

\* a filled square; a triangle with a translucent fill and a native outline
\* on another texture; a two-point polygon (its fill is degenerate) with a
\* triangulated outline, transformed; a square with no visible style
GeneralInputs ==
    { DrawInput(Square, Style(TRUE, WHITE, 2, 1, FALSE), Invisible, <<>>),
      DrawInput(Triangle, Style(TRUE, 16711680, 1, 2, FALSE),
                Style(TRUE, 16711680, 1, 2, TRUE), <<>>),
      DrawInput(Segment, Style(TRUE, WHITE, 2, 1, FALSE),
                Style(TRUE, WHITE, 2, 1, FALSE), <<Translate(1, 0)>>),
      DrawInput(Square, Invisible, Invisible, <<>>) }

HoleShapes == { Polygon(<<1, 1, 2, 1, 1, 2>>) }

\* most holes of one shape record
MaxHoles == 1

(***************************************************************************)
(* Actions: one call of a public method on one geometry.                   *)
(***************************************************************************)
DrawShapeWith(g, in) ==
    /\ Len(geom[g].graphicsData) < MaxShapes
    /\ geom[g].dirty < MaxDirty
    /\ Becomes(g, drawShape(World(g), in.shape, <<in.fillStyle>>,
                            <<in.lineStyle>>, in.matrix))

DrawShape(g) == \E in \in GeneralInputs : DrawShapeWith(g, in)

DrawHole(g) ==
    /\ geom[g].dirty < MaxDirty
    /\ Len(geom[g].graphicsData) > 0
         => Len(Last(geom[g].graphicsData).holes) < MaxHoles
    /\ \E shape \in HoleShapes : Becomes(g, drawHole(World(g), shape, <<>>))

Clear(g) ==
    /\ geom[g].dirty < MaxDirty
    /\ Becomes(g, clear(World(g)))

UpdateBatches(g) == Becomes(g, updateBatches(World(g)))

\* the resource of base texture b finishes loading, or is disposed
SetValid(b) ==
    /\ baseTex' = [baseTex EXCEPT ![b].valid = ~@]
    /\ probe' = [g \in Geoms |-> [probe[g] EXCEPT !.lastOp = "setValid",
                                                  !.repeated = FALSE]]
    /\ UNCHANGED <<geom, batchParts, drawCallObjects, BATCH_POOL,
                   DRAW_CALL_POOL, globalBatch, pure, loader>>

Next ==
    \/ DrawShape(1)
    \/ DrawHole(1)
    \/ Clear(1)
    \/ UpdateBatches(1)
    \/ SetValid(2)

Spec == Init /\ [][Next]_vars

(***************************************************************************)
(* Specification SpecStyle: squares whose fill and line styles differ in   *)
(* single fields, drawn and built in any interleaving.                     *)
(***************************************************************************)
\* fills: a reference style, then one with another base texture, another
\* color, another alpha, and one with both another color and another alpha
StyleFills ==
    { Style(TRUE, 0, 2, 1, FALSE),
      Style(TRUE, 0, 2, 2, FALSE),
      Style(TRUE, 1, 2, 1, FALSE),
      Style(TRUE, 0, 1, 1, FALSE),
      Style(TRUE, 1, 0, 1, FALSE) }

\* lines: none, the reference style, and the reference style drawn natively
StyleLines ==
    { Invisible,
      Style(TRUE, 0, 2, 1, FALSE),
      Style(TRUE, 0, 2, 1, TRUE) }

MaxStyleShapes == 2

DrawStyled(g) ==
    /\ Len(geom[g].graphicsData) < MaxStyleShapes
    /\ \E fill \in StyleFills, line \in StyleLines :
            Becomes(g, drawShape(World(g), Square, <<fill>>, <<line>>, <<>>))

NextStyle ==
    \/ DrawStyled(1)
    \/ UpdateBatches(1)

SpecStyle == Init /\ [][NextStyle]_vars

(***************************************************************************)
(* Specification SpecSize: shapes whose vertex counts add up to values     *)
(* around BATCHABLE_SIZE, with and without a native line.                  *)
(***************************************************************************)
\* a polygon of 96 points
BigPolygon == Polygon([k \in 1..192 |-> IF k % 2 = 1 THEN (k \div 2) % 12 ELSE (k - 1) \div 24])

PlainFill(texture) == Style(TRUE, WHITE, 2, texture, FALSE)

NativeLine(texture) == Style(TRUE, WHITE, 2, texture, TRUE)

\* 96, 4 and 3 vertices without a native line, 4 vertices with one
SizeInputs ==
    { DrawInput(BigPolygon, PlainFill(1), Invisible, <<>>),
      DrawInput(Square, PlainFill(1), Invisible, <<>>),
      DrawInput(Triangle, PlainFill(2), Invisible, <<>>),
      DrawInput(Square, Invisible, NativeLine(1), <<>>) }

DrawSized(g) == \E in \in SizeInputs : DrawShapeWith(g, in)

NextSize ==
    \/ DrawSized(1)
    \/ UpdateBatches(1)

SpecSize == Init /\ [][NextSize]_vars

(***************************************************************************)
(* Specification SpecTextures: up to MaxTextureShapes shapes are drawn,    *)
(* then the geometry is built.  Shape n is a filled square on base texture *)
(* n, a square with a native outline on base texture n, or a square filled *)
(* on base texture 1 with a native outline on base texture n; the first    *)
(* shape may also be a filled 96-point polygon.  At most MaxNativeLines    *)
(* shapes have a native outline.                                           *)
(***************************************************************************)
MaxTextureShapes == 9

MaxNativeLines == 2

FilledInputs(n) ==
    {DrawInput(Square, PlainFill(n), Invisible, <<>>)}
    \cup (IF n = 1 THEN {DrawInput(BigPolygon, PlainFill(1), Invisible, <<>>)}
          ELSE {})

OutlinedInputs(n) ==
    { DrawInput(Square, Invisible, NativeLine(n), <<>>),
      DrawInput(Square, PlainFill(1), NativeLine(n), <<>>) }

NativeLines(g) ==
    Cardinality({k \in DOMAIN geom[g].graphicsData :
                    geom[g].graphicsData[k].lineStyle[1].native})

TextureInputs(g) ==
    FilledInputs(Len(geom[g].graphicsData) + 1)
    \cup (IF NativeLines(g) < MaxNativeLines
          THEN OutlinedInputs(Len(geom[g].graphicsData) + 1)
          ELSE {})

DrawTextured(g) ==
    /\ Len(geom[g].graphicsData) < MaxTextureShapes
    /\ Len(geom[g].graphicsData) < Cardinality(BaseTextures)
    /\ geom[g].cacheDirty = -1
    /\ \E in \in TextureInputs(g) :
            Becomes(g, drawShape(World(g), in.shape, <<in.fillStyle>>,
                                 <<in.lineStyle>>, in.matrix))

NextTextures ==
    \/ DrawTextured(1)
    \/ UpdateBatches(1)

SpecTextures == Init /\ [][NextTextures]_vars

(***************************************************************************)
(* Specification SpecShared: two geometries that share the pools, the base *)
(* textures and BaseTexture._globalBatch; drawShape, clear, invalidate and *)
(* updateBatches are called on either in any interleaving.                 *)
(***************************************************************************)
MaxSharedShapes == 1

\* cap of the sum of the geometries' dirty counters in SpecShared
MaxSharedDirty == 3

SharedDirty == geom[1].dirty + geom[2].dirty

\* a square with a native outline on base texture 1; a square filled on
\* base texture 1 with a native outline on base texture 2
SharedInputs ==
    { DrawInput(Square, Invisible, NativeLine(1), <<>>),
      DrawInput(Square, PlainFill(1), NativeLine(2), <<>>) }

DrawShared(g) ==
    /\ Len(geom[g].graphicsData) < MaxSharedShapes
    /\ SharedDirty < MaxSharedDirty
    /\ \E in \in SharedInputs :
            Becomes(g, drawShape(World(g), in.shape, <<in.fillStyle>>,
                                 <<in.lineStyle>>, in.matrix))

ClearShared(g) ==
    /\ SharedDirty < MaxSharedDirty
    /\ Len(geom[g].graphicsData) > 0
    /\ Becomes(g, clear(World(g)))

\* invalidate() called on its own, as the owner of the geometry does
Invalidate(g) ==
    /\ SharedDirty < MaxSharedDirty
    /\ Len(geom[g].batches) > 0
    /\ Becomes(g, [invalidate(World(g)) EXCEPT
                     !.pr.lastOp = "invalidate",
                     !.pr.repeated = FALSE,
                     !.pr.drawOnly = FALSE,
                     !.pr.usages = <<>>])

NextShared ==
    \E g \in Geoms :
        \/ DrawShared(g)
        \/ ClearShared(g)
        \/ Invalidate(g)
        \/ UpdateBatches(g)

SpecShared == Init /\ [][NextShared]_vars

(***************************************************************************)
(* Specification SpecIndexBuffer: the index buffer step of updateBatches   *)
(* on its own, for vertex counts on both sides of 0xffff, index lists of   *)
(* two lengths, and the index buffers an earlier build may have left.      *)
(***************************************************************************)
VertexCounts == {4, 65534, 65535, 65536, 65537}

IndexLists == {<<0, 1, 2>>, <<0, 1, 2, 0, 2, 3>>}

EarlierIndexBuffers ==
    {NoTypedArray}
    \cup {TypedArray(bytes, values) :
            bytes \in {2, 4},
            values \in {<<0, 1, 2>>, <<0, 1, 3, 1, 2, 3>>, <<0, 1, 2, 0, 2, 3, 0, 3, 4>>}}

InitIndexBuffer ==
    /\ geom = [g \in Geoms |-> NewGeometry]
    /\ probe = [g \in Geoms |-> NewProbe]
    /\ batchParts = <<>>
    /\ drawCallObjects = <<>>
    /\ BATCH_POOL = <<>>
    /\ DRAW_CALL_POOL = <<>>
    /\ baseTex = [b \in BaseTextures |-> NewBaseTexture]
    /\ globalBatch = 0
    /\ loader = NoLoader
    /\ \E attrib \in VertexCounts, indices \in IndexLists,
          before \in EarlierIndexBuffers :
            pure = [op |-> "updateIndexBuffer", done |-> FALSE,
                    attrib |-> attrib, indices |-> indices,
                    before |-> before, after |-> before]

\* lines 724-735 of updateBatches on a geometry whose indices and
\* indicesUint16 are the arguments held in pure
ApplyIndexBuffer ==
    /\ pure.op = "updateIndexBuffer"
    /\ ~pure.done
    /\ pure' = [pure EXCEPT
                 !.done = TRUE,
                 !.after = updateIndexBuffer(
                              [World(1) EXCEPT !.g.indices = pure.indices,
                                               !.g.indicesUint16 = pure.before],
                              pure.attrib).g.indicesUint16]
    /\ UNCHANGED <<geom, probe, batchParts, drawCallObjects, BATCH_POOL,
                   DRAW_CALL_POOL, baseTex, globalBatch, loader>>

NextIndexBuffer == ApplyIndexBuffer

SpecIndexBuffer == InitIndexBuffer /\ [][NextIndexBuffer]_vars

(***************************************************************************)
(* Specification SpecHit: shapes to hit-test, with and without a           *)
(* transform, a visible fill and a hole, drawn and built in any            *)
(* interleaving.                                                           *)
(***************************************************************************)
\* a filled triangle; a filled square moved to (3, 3); a square with an
\* outline and no visible fill
HitInputs ==
    { DrawInput(Triangle, PlainFill(1), Invisible, <<>>),
      DrawInput(Square, PlainFill(1), Invisible, <<Translate(3, 3)>>),
      DrawInput(Square, Invisible, Style(TRUE, WHITE, 2, 1, FALSE), <<>>) }

QueryPoints == (-1..5) \X (-1..5)

DrawHit(g) == \E in \in HitInputs : DrawShapeWith(g, in)

NextHit ==
    \/ DrawHit(1)
    \/ DrawHole(1)
    \/ UpdateBatches(1)

SpecHit == Init /\ [][NextHit]_vars

(***************************************************************************)
(* Specification SpecBounds: bounds is read between the calls that draw,   *)
(* clear and build.                                                        *)
(***************************************************************************)
\* cap of the dirty counter in SpecBounds
MaxBoundsDirty == 2

Bounds(g) == Becomes(g, bounds(World(g)))

NextBounds ==
    \/ geom[1].dirty < MaxBoundsDirty /\ DrawShape(1)
    \/ geom[1].dirty < MaxBoundsDirty /\ DrawHole(1)
    \/ geom[1].dirty < MaxBoundsDirty /\ Clear(1)
    \/ UpdateBatches(1)
    \/ Bounds(1)

SpecBounds == Init /\ [][NextBounds]_vars

(***************************************************************************)
(* Specification SpecFresh: bounds is read between calls that draw and     *)
(* clear, while the base texture 2 comes and goes.                         *)
(***************************************************************************)
NextFresh ==
    \/ geom[1].dirty < MaxBoundsDirty /\ DrawShape(1)
    \/ geom[1].dirty < MaxBoundsDirty /\ DrawHole(1)
    \/ geom[1].dirty < MaxBoundsDirty /\ Clear(1)
    \/ Bounds(1)
    \/ SetValid(2)

SpecFresh == Init /\ [][NextFresh]_vars

(***************************************************************************)
(* Specification SpecInvisible: shapes that produce no vertex (no visible  *)
(* style, or a fill of fewer than three points) next to a filled square,   *)
(* on a base texture that turns invalid and valid.                         *)
(***************************************************************************)
\* a square with no visible style on base texture 2; a two-point polygon
\* with a visible fill on base texture 2 and no visible line; a filled
\* square on base texture 1
InvisibleInputs ==
    { DrawInput(Square, Style(FALSE, WHITE, 1, 2, FALSE),
                Style(FALSE, WHITE, 1, 2, FALSE), <<>>),
      DrawInput(Segment, Style(TRUE, WHITE, 1, 2, FALSE),
                Style(FALSE, WHITE, 1, 2, FALSE), <<>>),
      DrawInput(Square, Style(TRUE, WHITE, 1, 1, FALSE),
                Style(FALSE, WHITE, 1, 1, FALSE), <<>>) }

DrawInvisible(g) == \E in \in InvisibleInputs : DrawShapeWith(g, in)

NextInvisible ==
    \/ DrawInvisible(1)
    \/ Clear(1)
    \/ UpdateBatches(1)
    \/ SetValid(2)

SpecInvisible == Init /\ [][NextInvisible]_vars

(***************************************************************************)
(* Specification SpecDegenerate: two-point polygons, whose fill appends no *)
(* vertex, between shapes whose fill and line do.                          *)
(***************************************************************************)
\* a filled square; a two-point polygon with a visible fill of another
\* texture and no line; a triangle with a fill in the style of the square
\* and a line of another color; a two-point polygon with fill and line in
\* the style of the square
DegenerateInputs ==
    { DrawInput(Square, PlainFill(1), Invisible, <<>>),
      DrawInput(Segment, PlainFill(2), Invisible, <<>>),
      DrawInput(Triangle, PlainFill(1), Style(TRUE, 0, 2, 1, FALSE), <<>>),
      DrawInput(Segment, PlainFill(1), PlainFill(1), <<>>) }

DrawDegenerate(g) == \E in \in DegenerateInputs : DrawShapeWith(g, in)

NextDegenerate ==
    \/ DrawDegenerate(1)
    \/ Clear(1)
    \/ UpdateBatches(1)

SpecDegenerate == Init /\ [][NextDegenerate]_vars

(***************************************************************************)
(* Loader (packages/loaders/src/Loader.ts) with the spritesheet middleware *)
(* (packages/spritesheet/src/SpritesheetLoader.ts).  The operators below   *)
(* act on a loader record l: the fields of the Loader, its AsyncQueue      *)
(* (paused, tasks, workers, concurrency), the heap res of LoaderResource   *)
(* objects (resources maps a name to an object id or to 0), the timers     *)
(* set by setTimeout and by promises, and the log of dispatched signals.   *)
(* One step of the model is one task of the event loop: a call of the      *)
(* public interface, a timer, or the end of a transfer.                    *)
(***************************************************************************)
MAX_PROGRESS == 100

LoaderNames == {"a", "a_image", "b", "b_image"}

\* `${resource.name}_image`
ImageName(name) == IF name = "a" THEN "a_image" ELSE "b_image"

\* new LoaderResource(name, url, options); kind "sheet" is a JSON resource
\* whose data holds frames, waiter is the callback registered on
\* onAfterMiddleware (the resource and the middleware index that wait),
\* addedAt the number of onComplete dispatched before the resource was
\* added, enqueued the number of times it was pushed on the queue
NewLoaderResource(name, kind, parent) ==
    [name |-> name, kind |-> kind, parent |-> parent,
     isComplete |-> FALSE, isLoading |-> FALSE, error |-> FALSE,
     children |-> <<>>, progressChunk |-> Rat(0, 1),
     onLoadBinding |-> FALSE, dequeued |-> FALSE, waiter |-> <<>>,
     spritesheet |-> FALSE, stage |-> "queued", trace |-> <<>>,
     addedAt |-> 0, enqueued |-> 0]

NewLoader(concurrency, before, after) ==
    [loading |-> FALSE, progress |-> Rat(0, 1),
     paused |-> TRUE, tasks |-> <<>>, workers |-> 0,
     concurrency |-> concurrency,
     before |-> before, after |-> after,
     resources |-> [n \in LoaderNames |-> 0], res |-> <<>>,
     parsing |-> <<>>, timers |-> {}, log |-> <<>>,
     listeners |-> 0, thrown |-> "", loads |-> 0, resets |-> 0]

Timer(type, r, i) == [type |-> type, r |-> r, i |-> i]

IsComplete(entry) == entry.sig = "complete"

Completes(l) == Len(SelectSeq(l.log, IsComplete))

\* the instrumentation: a signal of the loader (r = 0) goes to the log of
\* the loader; a signal of resource r, a call of middleware i on it or the
\* start of its transfer goes to the trace of r, with the number of
\* onComplete dispatched before it
Dispatch(l, sig, r, i) ==
    IF r = 0
    THEN [l EXCEPT !.log = Append(@, [sig |-> sig, i |-> i])]
    ELSE [l EXCEPT !.res[r].trace =
            Append(@, [sig |-> sig, i |-> i,
                       cycle |-> Completes(l)])]

\* AsyncQueue.idle
idle(l) == Len(l.tasks) + l.workers = 0

\* AsyncQueue.push: the task is appended and process is called from a timer
push(l, r) ==
    [l EXCEPT !.tasks = Append(@, r),
              !.res[r].enqueued = @ + 1,
              !.timers = @ \cup {Timer("process", 0, 0)}]

\* AsyncQueue.kill
kill(l) == [l EXCEPT !.workers = 0, !.tasks = <<>>]

\* AsyncQueue.pause
pause(l) == [l EXCEPT !.paused = TRUE]

\* an _onStart that leaves progress as it is
_onStart_keepProgress(l) ==
    Dispatch([l EXCEPT !.loading = TRUE], "start", 0, 0)

\* Loader._onStart
_onStart(l) ==
    Dispatch([l EXCEPT !.progress = Rat(0, 1), !.loading = TRUE], "start", 0, 0)

\* Loader._onComplete; the listeners added by load(cb) are one-shot
_onComplete(l) ==
    Dispatch([l EXCEPT !.progress = Rat(MAX_PROGRESS, 1),
                       !.loading = FALSE,
                       !.listeners = 0], "complete", 0, l.listeners)

RECURSIVE process(_)
RECURSIVE afterNext(_, _, _, _)

\* the dequeue function of a task: AsyncQueue._next under onlyOnce
dequeue(l, r) ==
    IF l.res[r].dequeued THEN l
    ELSE process([l EXCEPT !.res[r].dequeued = TRUE, !.workers = @ - 1])

\* splice(indexOf(resource), 1): an index of -1 removes the last element
spliceParsing(parsing, r) ==
    IF r \in Range(parsing)
    THEN LET k == CHOOSE k \in DOMAIN parsing :
                    parsing[k] = r /\ \A j \in 1..(k - 1) : parsing[j] # r
         IN  SubSeq(parsing, 1, k - 1) \o SubSeq(parsing, k + 1, Len(parsing))
    ELSE Front(parsing)

\* the end of the callback of _onLoad: the completion check
completionCheck(l, r) ==
    IF idle(l) /\ Len(l.parsing) = 0 THEN _onComplete(l) ELSE l

leaveParsing(l, r) ==
    completionCheck([l EXCEPT !.parsing = spliceParsing(@, r)], r)

\* progress, onProgress, then onError or onLoad
resourceSignals(l, r) ==
    Dispatch(
        Dispatch([l EXCEPT !.progress =
                        IF RatLess(Rat(MAX_PROGRESS, 1),
                                   RatAdd(@, l.res[r].progressChunk))
                        THEN Rat(MAX_PROGRESS, 1)
                        ELSE RatAdd(@, l.res[r].progressChunk),
                           !.res[r].stage = "done"],
                 "progress", r, 0),
        IF l.res[r].error THEN "error" ELSE "load", r, 0)

\* an onImageLoad without the return behind next(res.error)
onImageLoad_noReturn(l, waiter, r) ==
    IF l.res[r].error
    THEN [afterNext(Dispatch(l, "next", waiter.r, 1), waiter.r, waiter.i, TRUE)
            EXCEPT !.timers = @ \cup {Timer("parsed", waiter.r, waiter.i)}]
    ELSE [l EXCEPT !.timers = @ \cup {Timer("parsed", waiter.r, waiter.i)}]

\* onImageLoad, the callback SpritesheetLoader.use passes to loader.add:
\* waiter.r waits in the after-middleware before index waiter.i; a call of
\* next by the spritesheet middleware is recorded in the trace of waiter.r,
\* with 1 for next(res.error) and 0 for next()
onImageLoad(l, waiter, r) ==
    IF l.res[r].error
    THEN afterNext(Dispatch(l, "next", waiter.r, 1), waiter.r, waiter.i, TRUE)
    ELSE [l EXCEPT !.timers = @ \cup {Timer("parsed", waiter.r, waiter.i)}]

\* resource.onAfterMiddleware.dispatch(resource)
dispatchAfterMiddleware(l, r) ==
    IF Len(l.res[r].waiter) = 0 THEN l
    ELSE onImageLoad([l EXCEPT !.res[r].waiter = <<>>], l.res[r].waiter[1], r)

\* the callback of eachSeries in _onLoad
afterDone(l, r) ==
    leaveParsing(
        resourceSignals(
            dispatchAfterMiddleware(Dispatch(l, "afterMiddleware", r, 0), r),
            r),
        r)

\* next of eachSeries over the after-middleware: i middleware have run
afterNext(l, r, i, err) ==
    IF err \/ i = Len(l.after) THEN afterDone(l, r)
    ELSE [l EXCEPT !.timers = @ \cup {Timer("after", r, i)}]

\* Loader._onLoad
_onLoad(l, r) ==
    afterNext(
        dequeue([l EXCEPT !.res[r].onLoadBinding = FALSE,
                          !.res[r].stage = "after",
                          !.parsing = Append(@, r)], r),
        r, 0, FALSE)

\* LoaderResource.load
resourceLoad(l, r) ==
    IF l.res[r].isLoading \/ l.res[r].isComplete THEN l
    ELSE Dispatch([l EXCEPT !.res[r].isLoading = TRUE,
                            !.res[r].stage = "loading"], "xhr", r, 0)

\* the callback of eachSeries in _loadResource
beforeDone(l, r) ==
    IF l.res[r].isComplete THEN _onLoad(l, r)
    ELSE resourceLoad([l EXCEPT !.res[r].onLoadBinding = TRUE], r)

\* next of eachSeries over the before-middleware: i middleware have run
beforeNext(l, r, i, err) ==
    IF err \/ i = Len(l.before) THEN beforeDone(l, r)
    ELSE [l EXCEPT !.timers = @ \cup {Timer("before", r, i)}]

\* Loader._loadResource, the worker of the queue
_loadResource(l, r) ==
    beforeNext([l EXCEPT !.res[r].stage = "before"], r, 0, FALSE)

\* AsyncQueue.process
process(l) ==
    IF ~l.paused /\ l.workers < l.concurrency /\ Len(l.tasks) > 0
    THEN process(_loadResource([l EXCEPT !.tasks = Tail(@),
                                         !.workers = @ + 1],
                               Head(l.tasks)))
    ELSE l

\* AsyncQueue.resume: process is called once per worker, and every call
\* after the first finds nothing to start
resume(l) ==
    IF ~l.paused THEN l ELSE process([l EXCEPT !.paused = FALSE])

\* the resources named in loader.resources
Registered(l) == {l.resources[n] : n \in LoaderNames} \ {0}

\* _add under if (this.loading): the progress chunks of the parent, of its
\* incomplete children and of the new child r
adjustChunks(l, r, parent) ==
    LET incomplete == {k \in Range(l.res[parent].children) : ~l.res[k].isComplete}
        eachChunk == RatMul(RatMul(l.res[parent].progressChunk,
                                   Rat(Cardinality(incomplete) + 1, 1)),
                            Rat(1, Cardinality(incomplete) + 2))
    IN  [l EXCEPT !.res = [k \in DOMAIN l.res |->
            IF k = parent
            THEN [l.res[k] EXCEPT !.children = Append(@, r),
                                  !.progressChunk = eachChunk]
            ELSE IF k \in incomplete \/ k = r
            THEN [l.res[k] EXCEPT !.progressChunk = eachChunk]
            ELSE l.res[k]]]

\* the resource is created, stored under its name and pushed on the queue
store(l, name, kind, parent, waiter) ==
    push([l EXCEPT !.res = Append(@, [NewLoaderResource(name, kind, parent)
                                        EXCEPT !.waiter = waiter,
                                               !.addedAt = Completes(l)]),
                   !.resources[name] = Len(l.res) + 1,
                   !.thrown = ""],
         Len(l.res) + 1)

\* `Resource named "${name}" already exists.`
AlreadyExists(name) == "Resource named \"" \o name \o "\" already exists."

\* _add that leaves the children of the parent alone
_add_noChild(l, name, kind, parent, waiter) ==
    IF l.loading /\ parent = 0
    THEN [l EXCEPT !.thrown = "Cannot add resources while the loader is running."]
    ELSE IF l.resources[name] # 0
    THEN [l EXCEPT !.thrown = AlreadyExists(name)]
    ELSE store(l, name, kind, parent, waiter)

\* _add that does not look the name up
_add_replace(l, name, kind, parent, waiter) ==
    IF l.loading /\ parent = 0
    THEN [l EXCEPT !.thrown = "Cannot add resources while the loader is running."]
    ELSE IF l.loading
    THEN adjustChunks(store(l, name, kind, parent, waiter), Len(l.res) + 1, parent)
    ELSE store(l, name, kind, parent, waiter)

\* Loader._add; parent is options.parentResource (0: none), waiter the
\* callback; thrown records the error the call ends with
_add(l, name, kind, parent, waiter) ==
    IF l.loading /\ parent = 0
    THEN [l EXCEPT !.thrown = "Cannot add resources while the loader is running."]
    ELSE IF l.resources[name] # 0
    THEN [l EXCEPT !.thrown = AlreadyExists(name)]
    ELSE IF l.loading
    THEN adjustChunks(store(l, name, kind, parent, waiter), Len(l.res) + 1, parent)
    ELSE store(l, name, kind, parent, waiter)

\* load: MAX_PROGRESS / numTasks for every task of the queue
distributeChunks(l) ==
    [l EXCEPT !.res = [k \in DOMAIN l.res |->
        IF k \in Range(l.tasks)
        THEN [l.res[k] EXCEPT !.progressChunk = Rat(MAX_PROGRESS, Len(l.tasks))]
        ELSE l.res[k]]]

\* a load that does not test this.loading
startLoad_again(l) ==
    IF idle(l) THEN _onComplete(_onStart(l))
    ELSE resume(_onStart(distributeChunks(l)))

\* load after the registration of the callback
startLoad(l) ==
    IF l.loading THEN l
    ELSE IF idle(l) THEN _onComplete(_onStart(l))
    ELSE resume(_onStart(distributeChunks(l)))

\* Loader.load(cb); cb tells whether a callback is passed
load(l, cb) ==
    startLoad([l EXCEPT !.listeners = IF cb THEN @ + 1 ELSE @,
                        !.thrown = "",
                        !.loads = @ + 1])

\* reset, for one resource: the binding on onComplete is detached and a
\* resource that is loading is aborted
resetResource(resource) ==
    IF resource.isLoading
    THEN [resource EXCEPT !.onLoadBinding = FALSE,
                          !.error = TRUE,
                          !.isComplete = TRUE,
                          !.isLoading = FALSE,
                          !.stage = "aborted"]
    ELSE [resource EXCEPT !.onLoadBinding = FALSE]

\* Loader.reset; the call is marked in the log of the loader
reset(l) ==
    [Dispatch(pause(kill(l)), "reset", 0, 0) EXCEPT
        !.progress = Rat(0, 1),
        !.loading = FALSE,
        !.res = [k \in DOMAIN l.res |->
                    IF k \in Registered(l) THEN resetResource(l.res[k])
                    ELSE l.res[k]],
        !.resources = [n \in LoaderNames |-> 0],
        !.thrown = "",
        !.resets = @ + 1]

\* resource.complete() called by a before-middleware that has the resource
completeEarly(l, r) ==
    [l EXCEPT !.res[r].isComplete = TRUE, !.res[r].isLoading = FALSE]

\* a wrapper that calls next() without looking at resource.isComplete
runBefore_noBreak(l, r, i, hit) ==
    IF l.before[i + 1] = "cache" /\ hit
    THEN beforeNext(completeEarly(Dispatch(l, "pre", r, i + 1), r), r, i + 1, FALSE)
    ELSE beforeNext(Dispatch(l, "pre", r, i + 1), r, i + 1, FALSE)

\* the wrapper of _loadResource round before-middleware i + 1; hit tells
\* whether a caching middleware has the resource
runBefore(l, r, i, hit) ==
    IF l.before[i + 1] = "cache" /\ hit
    THEN beforeNext(completeEarly(Dispatch(l, "pre", r, i + 1), r), r, i + 1, TRUE)
    ELSE beforeNext(Dispatch(l, "pre", r, i + 1), r, i + 1, l.res[r].isComplete)

\* SpritesheetLoader.use for a resource without related multi packs; i
\* after-middleware have been started
use(l, r, i) ==
    IF \/ l.res[r].error
       \/ l.res[r].kind # "sheet"
       \/ l.resources[ImageName(l.res[r].name)] # 0
    THEN afterNext(Dispatch(l, "next", r, 0), r, i, FALSE)
    ELSE _add(l, ImageName(l.res[r].name), "plain", r, <<[r |-> r, i |-> i]>>)

\* after-middleware i + 1 is called
runAfter(l, r, i) ==
    IF l.after[i + 1] = "sheet"
    THEN use(Dispatch(l, "use", r, i + 1), r, i + 1)
    ELSE afterNext(Dispatch(l, "use", r, i + 1), r, i + 1, FALSE)

\* spritesheet.parse() is resolved
parsed(l, r, i) ==
    afterNext(Dispatch([l EXCEPT !.res[r].spritesheet = TRUE], "next", r, 0),
              r, i, FALSE)

\* the transfer of a resource ends, well or with an error: the resource
\* completes and _onLoad is called if it is still bound
transferEnds(l, r, ok) ==
    IF l.res[r].onLoadBinding
    THEN _onLoad([l EXCEPT !.res[r].error = ~ok,
                           !.res[r].isComplete = TRUE,
                           !.res[r].isLoading = FALSE], r)
    ELSE [l EXCEPT !.res[r].error = ~ok,
                   !.res[r].isComplete = TRUE,
                   !.res[r].isLoading = FALSE]

(***************************************************************************)
(* Specification SpecLoader: one Loader, its user (add, load) and the      *)
(* event loop.                                                             *)
(***************************************************************************)
\* most LoaderResource objects created, most calls of load
MaxResources == 2

MaxLoads == 2

\* new Loader(baseUrl, concurrency) followed by pre(fn) and use(fn): one
\* before-middleware, a cache, and one after-middleware, the spritesheet
\* middleware; two resources at a time
LoaderConfigs ==
    { NewLoader(2, <<"cache">>, <<"sheet">>) }

\* the name and the kind of the resources the user adds
AddInputs == { <<"a", "sheet">>, <<"b", "plain">> }

InitLoader ==
    /\ geom = [g \in Geoms |-> NewGeometry]
    /\ probe = [g \in Geoms |-> NewProbe]
    /\ batchParts = <<>>
    /\ drawCallObjects = <<>>
    /\ BATCH_POOL = <<>>
    /\ DRAW_CALL_POOL = <<>>
    /\ baseTex = [b \in BaseTextures |-> NewBaseTexture]
    /\ globalBatch = 0
    /\ pure = NoCall
    /\ loader \in LoaderConfigs

LoaderBecomes(l) ==
    /\ loader' = l
    /\ UNCHANGED <<geom, probe, batchParts, drawCallObjects, BATCH_POOL,
                   DRAW_CALL_POOL, baseTex, globalBatch, pure>>

\* the timer t has fired
Fired(t) == [loader EXCEPT !.timers = @ \ {t}]

\* loader.add(name, url, options) of the user
Add ==
    \E in \in AddInputs :
        /\ Len(_add(loader, in[1], in[2], 0, <<>>).res) <= MaxResources
        /\ LoaderBecomes(_add(loader, in[1], in[2], 0, <<>>))

Load ==
    /\ loader.loads < MaxLoads
    /\ LoaderBecomes(load(loader, TRUE))

ProcessTimer ==
    /\ Timer("process", 0, 0) \in loader.timers
    /\ LoaderBecomes(process(Fired(Timer("process", 0, 0))))

BeforeTimer ==
    \E t \in loader.timers :
        /\ t.type = "before"
        /\ \E hit \in BOOLEAN : LoaderBecomes(runBefore(Fired(t), t.r, t.i, hit))

AfterTimer ==
    \E t \in loader.timers :
        /\ t.type = "after"
        /\ \/ Len(loader.res) < MaxResources
           \/ Len(runAfter(Fired(t), t.r, t.i).res) = Len(loader.res)
        /\ LoaderBecomes(runAfter(Fired(t), t.r, t.i))

ParsedTimer ==
    \E t \in loader.timers :
        /\ t.type = "parsed"
        /\ LoaderBecomes(parsed(Fired(t), t.r, t.i))

TransferEnds ==
    \E r \in DOMAIN loader.res, ok \in BOOLEAN :
        /\ loader.res[r].isLoading
        /\ LoaderBecomes(transferEnds(loader, r, ok))

NextLoader ==
    \/ Add
    \/ Load
    \/ ProcessTimer
    \/ BeforeTimer
    \/ AfterTimer
    \/ ParsedTimer
    \/ TransferEnds

SpecLoader == InitLoader /\ [][NextLoader]_vars

(***************************************************************************)
(* Specification SpecLoaderReset: the user also calls reset, and adds one  *)
(* plain resource under the same name again after a reset.                 *)
(***************************************************************************)
\* most LoaderResource objects created, most calls of load and reset
\* together
MaxResetResources == 2

MaxResetCalls == 3

AddPlain ==
    /\ Len(_add(loader, "b", "plain", 0, <<>>).res) <= MaxResetResources
    /\ LoaderBecomes(_add(loader, "b", "plain", 0, <<>>))

LoadAgain ==
    /\ loader.loads + loader.resets < MaxResetCalls
    /\ LoaderBecomes(load(loader, TRUE))

Reset ==
    /\ loader.loads + loader.resets < MaxResetCalls
    /\ LoaderBecomes(reset(loader))

NextLoaderReset ==
    \/ AddPlain
    \/ LoadAgain
    \/ Reset
    \/ ProcessTimer
    \/ BeforeTimer
    \/ AfterTimer
    \/ TransferEnds

SpecLoaderReset == InitLoader /\ [][NextLoaderReset]_vars

(***************************************************************************)
(* Specification SpecMiddleware: the loader of SpecLoader with two         *)
(* before-middleware and two after-middleware.                             *)
(***************************************************************************)
\* pre(cache), pre(cache), use(SpritesheetLoader.use), use(note): two
\* caches, the spritesheet middleware and a middleware that only calls
\* next()
MiddlewareConfigs ==
    { NewLoader(2, <<"cache", "cache">>, <<"sheet", "note">>) }

InitMiddleware ==
    /\ geom = [g \in Geoms |-> NewGeometry]
    /\ probe = [g \in Geoms |-> NewProbe]
    /\ batchParts = <<>>
    /\ drawCallObjects = <<>>
    /\ BATCH_POOL = <<>>
    /\ DRAW_CALL_POOL = <<>>
    /\ baseTex = [b \in BaseTextures |-> NewBaseTexture]
    /\ globalBatch = 0
    /\ pure = NoCall
    /\ loader \in MiddlewareConfigs

SpecMiddleware == InitMiddleware /\ [][NextLoader]_vars

(***************************************************************************)
(* Specification SpecSheet: a loader whose only middleware is the          *)
(* spritesheet middleware; the user adds a sheet and, under the name of    *)
(* its image, a resource of their own.  SpecSheetFair adds that every      *)
(* timer fires and every transfer ends.                                    *)
(***************************************************************************)
SheetConfigs ==
    { NewLoader(2, <<>>, <<"sheet">>) }

SheetInputs == { <<"a", "sheet">>, <<"a_image", "plain">> }

InitSheet ==
    /\ geom = [g \in Geoms |-> NewGeometry]
    /\ probe = [g \in Geoms |-> NewProbe]
    /\ batchParts = <<>>
    /\ drawCallObjects = <<>>
    /\ BATCH_POOL = <<>>
    /\ DRAW_CALL_POOL = <<>>
    /\ baseTex = [b \in BaseTextures |-> NewBaseTexture]
    /\ globalBatch = 0
    /\ pure = NoCall
    /\ loader \in SheetConfigs

AddSheet ==
    \E in \in SheetInputs :
        /\ Len(_add(loader, in[1], in[2], 0, <<>>).res) <= MaxResources
        /\ LoaderBecomes(_add(loader, in[1], in[2], 0, <<>>))

NextSheet ==
    \/ AddSheet
    \/ Load
    \/ ProcessTimer
    \/ AfterTimer
    \/ ParsedTimer
    \/ TransferEnds

SpecSheet == InitSheet /\ [][NextSheet]_vars

\* AfterTimer is enabled
AfterMayFire ==
    \E t \in loader.timers :
        /\ t.type = "after"
        /\ \/ Len(loader.res) < MaxResources
           \/ Len(runAfter(Fired(t), t.r, t.i).res) = Len(loader.res)

\* the step is an AfterTimer step: only that action takes an "after" timer
\* out of timers
AfterFires ==
    \E t \in loader.timers : t.type = "after" /\ t \notin loader'.timers

\* setTimeout callbacks run and transfers end (well, with an error or by
\* timeout): weak fairness of the four actions of the event loop, the one
\* of AfterTimer written out as []<>~ENABLED \/ []<>step
SpecSheetFair ==
    /\ SpecSheet
    /\ WF_vars(ProcessTimer)
    /\ WF_vars(ParsedTimer)
    /\ WF_vars(TransferEnds)
    /\ ([]<>~AfterMayFire \/ []<><<AfterFires>>_vars)

(***************************************************************************)
(* What a build leaves behind, by content: the batch parts and the draw    *)
(* calls are read through their lists, a draw call shows the textures it   *)
(* binds.                                                                  *)
(***************************************************************************)
PartsOf(w) == [k \in 1..Len(w.g.batches) |-> w.bp[w.g.batches[k]]]

BoundTextures(call) == SubSeq(call.texArray.elements, 1, call.texArray.count)

DrawCallsOf(w) ==
    [k \in 1..Len(w.g.drawCalls) |->
        LET call == w.dc[w.g.drawCalls[k]]
        IN  [textures |-> BoundTextures(call), type |-> call.type,
             start |-> call.start, size |-> call.size]]

\* the vertex and index data and the batch parts
DataView(w) ==
    [points |-> w.g.points, uvs |-> w.g.uvs, indices |-> w.g.indices,
     parts |-> PartsOf(w)]

\* everything a build computes
BuildView(w) ==
    [data |-> DataView(w), batchable |-> w.g.batchable,
     indicesUint16 |-> w.g.indicesUint16, drawCalls |-> DrawCallsOf(w),
     colors |-> w.g.colors, textureIds |-> w.g.textureIds]

\* the fields that updateBatches() may write
CallView(w) ==
    [build |-> BuildView(w), batches |-> w.g.batches,
     drawCallList |-> w.g.drawCalls, cacheDirty |-> w.g.cacheDirty,
     shapeIndex |-> w.g.shapeIndex, batchDirty |-> w.g.batchDirty]

\* a shape record as drawShape and drawHole left it, not yet tessellated
Untessellated(data) ==
    [data EXCEPT !.points = <<>>,
                 !.holes = [h \in 1..Len(data.holes) |->
                              [data.holes[h] EXCEPT !.points = <<>>]]]

\* the number of holes of the shape records of a list
RECURSIVE HoleCount(_, _)
HoleCount(shapes, i) ==
    IF i > Len(shapes) THEN 0
    ELSE Len(shapes[i].holes) + HoleCount(shapes, i + 1)

\* a geometry constructed now, in the same process, that was given the shape
\* records and holes of geometry g by drawShape and drawHole
FreshWorld(g) ==
    LET shapes == geom[g].graphicsData
    IN  MakeWorld(
            [NewGeometry EXCEPT
                !.graphicsData = [i \in 1..Len(shapes) |-> Untessellated(shapes[i])],
                !.dirty = Len(shapes) + HoleCount(shapes, 1)],
            [NewProbe EXCEPT
                !.tessCount = [i \in 1..Len(shapes) |-> 0],
                !.holesAtBuild = [i \in 1..Len(shapes) |-> 0]],
            batchParts, drawCallObjects, BATCH_POOL, DRAW_CALL_POOL,
            baseTex, globalBatch)

FreshBuild(g) == updateBatches(FreshWorld(g))

\* every texture the shape records of g use is valid
TexturesValid(g) ==
    \A i \in DOMAIN geom[g].graphicsData :
        /\ styleTextureValid(World(g), geom[g].graphicsData[i].fillStyle)
        /\ styleTextureValid(World(g), geom[g].graphicsData[i].lineStyle)

\* the last call on g was an updateBatches() that left the cache valid
Built(g) ==
    /\ probe[g].lastOp = "updateBatches"
    /\ geom[g].cacheDirty = geom[g].dirty
    /\ Len(geom[g].graphicsData) > 0

(***************************************************************************)
(* C1.  Idempotence: an updateBatches() that follows an updateBatches()    *)
(* with no drawShape, drawHole, clear or texture validity change in        *)
(* between tessellates nothing and leaves points, uvs, indices, colors,    *)
(* textureIds, indicesUint16, batches, drawCalls, batchable, cacheDirty,   *)
(* shapeIndex and batchDirty as they were.                                 *)
(***************************************************************************)
C1_Idempotent ==
    [][\A g \in Geoms :
        (probe[g].lastOp = "updateBatches" /\ UpdateBatches(g))
            => /\ CallView(World(g))' = CallView(World(g))
               /\ probe'[g].tessLast = <<>>]_vars

\* a second updateBatches() ran on a geometry with batch parts
C1_Witness ==
    \E g \in Geoms :
        /\ probe[g].repeated
        /\ Built(g)
        /\ Len(geom[g].batches) > 0

(***************************************************************************)
(* C2.  Incremental work: a shape record is tessellated at most once       *)
(* between the drawShape that appended it and the next clear, and once     *)
(* the cache is valid every shape record was tessellated exactly once: an  *)
(* updateBatches() after appending shapes k .. n-1 tessellates those only. *)
(***************************************************************************)
C2_Incremental ==
    \A g \in Geoms :
        /\ \A i \in DOMAIN probe[g].tessCount : probe[g].tessCount[i] <= 1
        /\ geom[g].cacheDirty = geom[g].dirty
            => \A i \in DOMAIN probe[g].tessCount : probe[g].tessCount[i] = 1

\* the last updateBatches() tessellated the second shape record only
C2_Witness ==
    \E g \in Geoms :
        /\ Built(g)
        /\ Len(geom[g].graphicsData) = 2
        /\ probe[g].tessLast = <<1>>
        /\ Len(geom[g].batches) > 0

(***************************************************************************)
(* C3.  Incremental build equals from-scratch build: after drawShape and   *)
(* updateBatches calls only, in any interleaving, a completed build left   *)
(* the points, uvs, indices, batch parts, batchable flag, index buffer,    *)
(* draw calls, colors and textureIds that one build of a fresh geometry    *)
(* holding the same shape list computes.                                   *)
(***************************************************************************)
C3_IncrementalEqualsFresh ==
    \A g \in Geoms :
        (Built(g) /\ probe[g].drawOnly /\ TexturesValid(g))
            => BuildView(World(g)) = BuildView(FreshBuild(g))

\* an incremental build of the last of three shape records on top of a
\* build of the first two, ending with compiled draw calls
C3_Witness ==
    \E g \in Geoms :
        /\ Built(g)
        /\ probe[g].drawOnly
        /\ TexturesValid(g)
        /\ Len(geom[g].graphicsData) = 3
        /\ probe[g].tessLast = <<2>>
        /\ Len(geom[g].batches) > 1
        /\ Len(geom[g].drawCalls) > 0

(***************************************************************************)
(* C4.  A rebuild is a pure function of the current shape state: after any *)
(* sequence of drawShape, drawHole, clear and updateBatches that ends with *)
(* a completed updateBatches (all textures valid), the vertex and index    *)
(* data and the batch parts equal those of a build of a fresh geometry     *)
(* holding the same shape records with the same holes.                     *)
(***************************************************************************)
C4_RebuildIsPure ==
    \A g \in Geoms :
        (Built(g) /\ TexturesValid(g))
            => DataView(World(g)) = DataView(FreshBuild(g))

(***************************************************************************)
(* Style usages.  Every visible style usage that appended vertices is      *)
(* logged with the position in batches of the part that was open when its  *)
(* uvs were added.                                                         *)
(***************************************************************************)
\* the number of fields among base texture, color, alpha and native flag in
\* which two styles differ
Differing(a, b) ==
    (IF baseTextureOf(a.texture) # baseTextureOf(b.texture) THEN 1 ELSE 0)
    + (IF a.color # b.color THEN 1 ELSE 0)
    + (IF a.alpha # b.alpha THEN 1 ELSE 0)
    + (IF a.native # b.native THEN 1 ELSE 0)

\* the vertices of usage u lie in the batch part the log names
UsageInPart(g, u) ==
    LET part == batchParts[geom[g].batches[u.part]]
    IN  /\ part.attribStart <= u.attribStart
        /\ u.attribStart + u.size <= part.attribStart + part.attribSize

(***************************************************************************)
(* C5.  Style merge: of two consecutive style usages that appended         *)
(* vertices (fill or line, of one shape or of adjacent shapes, in one      *)
(* build or across builds), the second lies in the batch part of the first *)
(* when base texture, color, alpha and native flag are the same, and       *)
(* starts the next batch part when exactly one of the four differs.        *)
(***************************************************************************)
C5_StyleMerge ==
    \A g \in Geoms :
        /\ \A k \in DOMAIN probe[g].usages : UsageInPart(g, probe[g].usages[k])
        /\ \A k \in 1..(Len(probe[g].usages) - 1) :
            LET a == probe[g].usages[k]
                b == probe[g].usages[k + 1]
            IN  /\ Differing(a.style, b.style) = 0 => b.part = a.part
                /\ Differing(a.style, b.style) = 1 => b.part = a.part + 1

\* a build left four usages: two in one part, the next two each in a new
\* part, the last one added by an incremental build
C5_Witness ==
    \E g \in Geoms :
        /\ Built(g)
        /\ Len(probe[g].usages) = 4
        /\ probe[g].usages[2].part = probe[g].usages[1].part
        /\ Differing(probe[g].usages[2].style, probe[g].usages[3].style) = 1
        /\ Differing(probe[g].usages[3].style, probe[g].usages[4].style) = 1
        /\ probe[g].tessLast = <<1>>

(***************************************************************************)
(* C6.  Strict style equality: two consecutive style usages share a batch  *)
(* part only if base texture, color, alpha and native flag are all         *)
(* identical; any mismatch, also color and alpha differing at the same     *)
(* time, forces a new batch part.                                          *)
(***************************************************************************)
C6_StrictEquality ==
    \A g \in Geoms :
        \A k \in 1..(Len(probe[g].usages) - 1) :
            LET a == probe[g].usages[k]
                b == probe[g].usages[k + 1]
            IN  b.part = a.part => Differing(a.style, b.style) = 0

VertexCount(g) == Len(geom[g].points) \div 2

HasNativePart(g) ==
    \E k \in DOMAIN geom[g].batches :
        batchParts[geom[g].batches[k]].style[1].native

(***************************************************************************)
(* C7.  Batchability: after a build that produced at least one batch part, *)
(* batchable is true exactly when the vertex count is at most              *)
(* BATCHABLE_SIZE, no batch part has a native style and the vertex count   *)
(* is at most 65535.                                                       *)
(***************************************************************************)
C7_Batchability ==
    \A g \in Geoms :
        (Built(g) /\ Len(geom[g].batches) > 0)
            => (geom[g].batchable
                  <=> /\ VertexCount(g) <= BATCHABLE_SIZE
                      /\ ~HasNativePart(g)
                      /\ VertexCount(g) <= MAX_UINT16)

PartTextures(g) ==
    {baseTextureOf(batchParts[geom[g].batches[k]].style[1].texture) :
        k \in DOMAIN geom[g].batches}

(***************************************************************************)
(* C8.  Texture budget: every draw call binds at most MAX_TEXTURES         *)
(* textures and no texture twice, and there are at least                   *)
(* ceil(D / MAX_TEXTURES) draw calls for the D distinct base textures of   *)
(* the batch parts.                                                        *)
(***************************************************************************)
C8_TextureBudget ==
    \A g \in Geoms :
        Len(geom[g].drawCalls) > 0 =>
            /\ \A k \in DOMAIN geom[g].drawCalls :
                LET call == drawCallObjects[geom[g].drawCalls[k]]
                IN  /\ call.texArray.count <= MAX_TEXTURES
                    /\ \A i, j \in 1..call.texArray.count :
                        call.texArray.elements[i] = call.texArray.elements[j] => i = j
            /\ Len(geom[g].drawCalls) * MAX_TEXTURES >= Cardinality(PartTextures(g))

\* a build bound nine distinct textures: a full draw call and one more
C8_Witness ==
    \E g \in Geoms :
        /\ Built(g)
        /\ Cardinality(PartTextures(g)) = 9
        /\ Len(geom[g].drawCalls) >= 2
        /\ drawCallObjects[geom[g].drawCalls[1]].texArray.count = MAX_TEXTURES

\* n filled shapes, shape k on base texture k, no visible line
FilledOnDistinctTextures(g, n) ==
    /\ Len(geom[g].graphicsData) = n
    /\ \A k \in 1..n :
        /\ geom[g].graphicsData[k].fillStyle[1].visible
        /\ ~geom[g].graphicsData[k].lineStyle[1].visible
        /\ baseTextureOf(geom[g].graphicsData[k].fillStyle[1].texture) = k

AllRectangles(g) ==
    \A k \in DOMAIN geom[g].graphicsData :
        geom[g].graphicsData[k].shape.type = "RECT"

EightThenOne(g) ==
    /\ Len(geom[g].drawCalls) = 2
    /\ BoundTextures(drawCallObjects[geom[g].drawCalls[1]]) = <<1, 2, 3, 4, 5, 6, 7, 8>>
    /\ BoundTextures(drawCallObjects[geom[g].drawCalls[2]]) = <<9>>

(***************************************************************************)
(* C9.  Nine-texture scenario: nine filled rectangles, each on its own     *)
(* base texture, then updateBatches(), give exactly two draw calls, the    *)
(* first binding the first eight textures and the second the ninth.        *)
(***************************************************************************)
C9_NineRectangles ==
    \A g \in Geoms :
        (Built(g) /\ FilledOnDistinctTextures(g, 9) /\ AllRectangles(g))
            => EightThenOne(g)

\* C9, as amended: nine filled rectangles on nine base textures are batchable
\* and compile no draw call; nine filled shapes on nine base textures that
\* are not batchable (BATCHABLE_SIZE vertices or more) give the two draw
\* calls of eight textures and of the ninth
C9_NineTextures ==
    \A g \in Geoms :
        (Built(g) /\ FilledOnDistinctTextures(g, 9))
            => /\ AllRectangles(g)
                    => geom[g].batchable /\ geom[g].drawCalls = <<>>
               /\ VertexCount(g) >= BATCHABLE_SIZE
                    => ~geom[g].batchable /\ EightThenOne(g)

\* nine filled shapes on nine base textures were compiled into draw calls
C9_Witness ==
    \E g \in Geoms :
        /\ Built(g)
        /\ FilledOnDistinctTextures(g, 9)
        /\ VertexCount(g) >= BATCHABLE_SIZE
        /\ ~geom[g].batchable

PartInCall(part, call) ==
    /\ call.start <= part.start
    /\ part.start + part.size <= call.start + call.size

TypeOfStyle(style) == IF style.native THEN LINES ELSE TRIANGLES

(***************************************************************************)
(* C10.  Type-pure draw calls: every batch part lies inside a draw call    *)
(* of its own primitive type, LINES for a native style and TRIANGLES       *)
(* otherwise, whatever the order of native and other parts.                *)
(***************************************************************************)
C10_TypePure ==
    \A g \in Geoms :
        Len(geom[g].drawCalls) > 0 =>
            \A b \in DOMAIN geom[g].batches :
                LET part == batchParts[geom[g].batches[b]]
                IN  /\ \E k \in DOMAIN geom[g].drawCalls :
                        PartInCall(part, drawCallObjects[geom[g].drawCalls[k]])
                    /\ \A k \in DOMAIN geom[g].drawCalls :
                        PartInCall(part, drawCallObjects[geom[g].drawCalls[k]])
                            => drawCallObjects[geom[g].drawCalls[k]].type
                                    = TypeOfStyle(part.style[1])

\* the first part is native, and triangles, lines and triangles again
\* follow one another in three draw calls at least
C10_Witness ==
    \E g \in Geoms :
        /\ Built(g)
        /\ Len(geom[g].batches) >= 4
        /\ batchParts[geom[g].batches[1]].style[1].native
        /\ ~batchParts[geom[g].batches[2]].style[1].native
        /\ batchParts[geom[g].batches[3]].style[1].native
        /\ ~batchParts[geom[g].batches[4]].style[1].native
        /\ Len(geom[g].drawCalls) >= 4

(***************************************************************************)
(* C11.  Texture slot correctness: while a geometry holds compiled draw    *)
(* calls, every batch part lies in a draw call, and the texture id of each *)
(* vertex of the part is the position of the part's base texture in the    *)
(* texture array of the draw call that covers the part, whatever marks     *)
(* earlier compilations of this or of another geometry left on the         *)
(* textures.                                                               *)
(***************************************************************************)
C11_TextureSlots ==
    \A g \in Geoms :
        Len(geom[g].drawCalls) > 0 =>
            \A b \in DOMAIN geom[g].batches :
                LET part == batchParts[geom[g].batches[b]]
                    texture == baseTextureOf(part.style[1].texture)
                IN  /\ \E k \in DOMAIN geom[g].drawCalls :
                        PartInCall(part, drawCallObjects[geom[g].drawCalls[k]])
                    /\ \A k \in DOMAIN geom[g].drawCalls :
                        LET call == drawCallObjects[geom[g].drawCalls[k]]
                        IN  PartInCall(part, call) =>
                                \A v \in 1..part.attribSize :
                                    /\ part.attribStart + v <= Len(geom[g].textureIds)
                                    /\ geom[g].textureIds[part.attribStart + v] + 1
                                            \in 1..call.texArray.count
                                    /\ call.texArray.elements[
                                            geom[g].textureIds[part.attribStart + v] + 1]
                                            = texture

\* both geometries hold draw calls compiled one after the other that bind
\* the same base texture
C11_Witness ==
    /\ \A g \in Geoms : Built(g) /\ Len(geom[g].drawCalls) = 2
    /\ PartTextures(1) \cap PartTextures(2) # {}
    /\ \E b \in BaseTextures : baseTex[b].batchEnabled > 2

(***************************************************************************)
(* C12.  Index width: the index buffer a build leaves holds the indices in *)
(* a 16-bit array when the vertex count is at most 65535 and in a 32-bit   *)
(* array when it is larger, whatever buffer an earlier build left.         *)
(***************************************************************************)
C12_IndexWidth ==
    (pure.op = "updateIndexBuffer" /\ pure.done) =>
        /\ pure.after.bytes = (IF pure.attrib <= 65535 THEN 2 ELSE 4)
        /\ pure.after.data = pure.indices

\* the earlier build left a 16-bit buffer of the same length and the
\* vertex count now exceeds 65535
C12_Witness ==
    /\ pure.op = "updateIndexBuffer"
    /\ pure.done
    /\ pure.before.bytes = 2
    /\ Len(pure.before.data) = Len(pure.indices)
    /\ pure.attrib > 65535
    /\ pure.after.bytes = 4

(***************************************************************************)
(* C13.  Equal per-vertex array lengths: after every updateBatches() that  *)
(* built batch parts, batchable or not, points.length / 2, uvs.length / 2, *)
(* colors.length and textureIds.length are the same.                       *)
(***************************************************************************)
C13_EqualLengths ==
    \A g \in Geoms :
        (Built(g) /\ Len(geom[g].batches) > 0)
            => /\ Len(geom[g].uvs) = Len(geom[g].points)
               /\ Len(geom[g].colors) = VertexCount(g)
               /\ Len(geom[g].textureIds) = VertexCount(g)

\* C13, as amended: after every updateBatches() that built batch parts, uvs
\* is as long as points; colors and textureIds hold one entry per vertex
\* when the geometry is not batchable, and no entry when it is batchable
C13_PerVertexLengths ==
    \A g \in Geoms :
        (Built(g) /\ Len(geom[g].batches) > 0)
            => /\ Len(geom[g].uvs) = Len(geom[g].points)
               /\ ~geom[g].batchable
                    => /\ Len(geom[g].colors) = VertexCount(g)
                       /\ Len(geom[g].textureIds) = VertexCount(g)
               /\ geom[g].batchable
                    => /\ Len(geom[g].colors) = 0
                       /\ Len(geom[g].textureIds) = 0

\* an incremental build added vertices to a geometry that is not batchable
C13_Witness ==
    \E g \in Geoms :
        /\ Built(g)
        /\ ~geom[g].batchable
        /\ probe[g].tessLast = <<1>>
        /\ VertexCount(g) > 4
        /\ Len(geom[g].colors) = VertexCount(g)

\* g holds one rectangle with a visible fill, no visible line, no
\* transform and no hole, and nothing else was ever drawn on it
SingleFilledRectangle(g) ==
    /\ probe[g].drawOnly
    /\ Len(geom[g].graphicsData) = 1
    /\ geom[g].graphicsData[1].shape.type = "RECT"
    /\ geom[g].graphicsData[1].fillStyle[1].visible
    /\ ~geom[g].graphicsData[1].lineStyle[1].visible
    /\ geom[g].graphicsData[1].matrix = <<>>
    /\ geom[g].graphicsData[1].holes = <<>>

C15_Clear ==
    [][\A g \in Geoms :
        /\ (Clear(g) /\ Len(geom[g].graphicsData) > 0)
            => /\ geom'[g].graphicsData = <<>>
               /\ geom'[g].points = <<>>
               /\ geom'[g].colors = <<>>
               /\ geom'[g].uvs = <<>>
               /\ geom'[g].indices = <<>>
               /\ geom'[g].textureIds = <<>>
               /\ geom'[g].batches = <<>>
               /\ geom'[g].drawCalls = <<>>
               /\ geom'[g].shapeIndex = 0
        /\ (Clear(g) /\ Len(geom[g].graphicsData) = 0)
            => geom'[g] = geom[g]
        /\ (probe[g].lastOp = "clear" /\ UpdateBatches(g))
            => /\ geom'[g].batchable
               /\ probe'[g].tessLast = <<>>
               /\ geom'[g].points = <<>>
               /\ geom'[g].batches = <<>>]_vars

\* a geometry that had been built into draw calls was cleared, and
\* updateBatches() ran after the clear()
C15_Witness ==
    \E g \in Geoms :
        /\ geom[g].clearDirty = 1
        /\ geom[g].graphicsData = <<>>
        /\ probe[g].lastOp = "updateBatches"
        /\ geom[g].batchable
        /\ Len(BATCH_POOL) > 0
        /\ Len(DRAW_CALL_POOL) > 0

(***************************************************************************)
(* C16.  drawHole: with no shape it returns null and leaves the geometry   *)
(* as it was, dirty included; with a shape it returns the geometry,        *)
(* appends the hole to the holes of the last shape only, gives the hole    *)
(* that shape's line style and adds 1 to dirty.                            *)
(***************************************************************************)
C16_DrawHole ==
    [][\A g \in Geoms :
        DrawHole(g) =>
            LET n == Len(geom[g].graphicsData)
            IN  IF n = 0
                THEN /\ drawHoleReturnsNull(World(g))
                     /\ geom'[g] = geom[g]
                ELSE /\ ~drawHoleReturnsNull(World(g))
                     /\ Len(geom'[g].graphicsData) = n
                     /\ \A i \in 1..(n - 1) :
                            geom'[g].graphicsData[i] = geom[g].graphicsData[i]
                     /\ Len(geom'[g].graphicsData[n].holes)
                            = Len(geom[g].graphicsData[n].holes) + 1
                     /\ Front(geom'[g].graphicsData[n].holes)
                            = geom[g].graphicsData[n].holes
                     /\ Last(geom'[g].graphicsData[n].holes).lineStyle
                            = geom[g].graphicsData[n].lineStyle
                     /\ Last(geom'[g].graphicsData[n].holes).shape \in HoleShapes
                     /\ [geom'[g].graphicsData[n] EXCEPT !.holes = <<>>]
                            = [geom[g].graphicsData[n] EXCEPT !.holes = <<>>]
                     /\ geom'[g].dirty = geom[g].dirty + 1
                     /\ [geom'[g] EXCEPT !.graphicsData = <<>>, !.dirty = 0]
                            = [geom[g] EXCEPT !.graphicsData = <<>>, !.dirty = 0]]_vars

\* the second of two shapes, which has a visible line style, received a
\* hole; the first has none
C16_Witness ==
    \E g \in Geoms :
        /\ probe[g].lastOp = "drawHole"
        /\ Len(geom[g].graphicsData) = 2
        /\ geom[g].graphicsData[1].holes = <<>>
        /\ Len(geom[g].graphicsData[2].holes) = 1
        /\ geom[g].graphicsData[2].lineStyle[1].visible
        /\ geom[g].graphicsData[2].holes[1].lineStyle
                = geom[g].graphicsData[2].lineStyle

\* shape record i of g has a visible fill, its shape contains the point
\* mapped into its space, and none of its holes does
HitBy(g, i, point) ==
    LET data == geom[g].graphicsData[i]
        mapped == IF data.matrix = <<>> THEN point
                  ELSE applyInverse(data.matrix[1], point)
    IN  /\ data.fillStyle[1].visible
        /\ contains(data.shape, mapped)
        /\ \A h \in DOMAIN data.holes : ~contains(data.holes[h].shape, mapped)

(***************************************************************************)
(* C17.  Hit-testing: containsPoint(p) is true exactly when some shape     *)
(* with a visible fill contains p, mapped through the inverse of the       *)
(* shape's transform when it has one, and no hole of that shape contains   *)
(* the mapped point; an updateBatches() does not change the answer.        *)
(***************************************************************************)
C17_HitTest ==
    /\ [](\A g \in Geoms : \A p \in QueryPoints :
            containsPoint(World(g), p)
                <=> \E i \in DOMAIN geom[g].graphicsData : HitBy(g, i, p))
    /\ [][\A g \in Geoms :
            UpdateBatches(g) =>
                \A p \in QueryPoints :
                    containsPoint(World(g), p)' = containsPoint(World(g), p)]_vars

\* a built polygon with one hole, followed by a moved square: a point in
\* the hole misses, a point in the polygon outside the hole hits, and a
\* point hits the square where it was moved to
C17_Witness ==
    \E g \in Geoms :
        /\ Built(g)
        /\ Len(geom[g].graphicsData) = 2
        /\ geom[g].graphicsData[1].shape.type = "POLY"
        /\ Len(geom[g].graphicsData[1].holes) = 1
        /\ \E p, q \in QueryPoints :
            /\ contains(geom[g].graphicsData[1].shape, p)
            /\ contains(geom[g].graphicsData[1].holes[1].shape, p)
            /\ ~containsPoint(World(g), p)
            /\ ~contains(geom[g].graphicsData[1].holes[1].shape, q)
            /\ contains(geom[g].graphicsData[1].shape, q)
            /\ containsPoint(World(g), q)
        /\ geom[g].graphicsData[2].matrix # <<>>
        /\ ~contains(geom[g].graphicsData[1].shape, <<4, 4>>)
        /\ containsPoint(World(g), <<4, 4>>)

\* what a read of bounds may write besides what updateBatches writes
WithoutBounds(g) ==
    [g EXCEPT !._bounds = <<>>, !.boundsDirty = -1]

(***************************************************************************)
(* C18.  Bounds cache: a read of bounds first calls updateBatches(); it    *)
(* calls calculateBounds exactly when dirty differs from the value stored  *)
(* at the last bounds computation; a read that follows a read with no      *)
(* drawShape, drawHole or clear in between does not compute the box        *)
(* again.                                                                  *)
(***************************************************************************)
C18_BoundsCache ==
    [][\A g \in Geoms :
        Bounds(g) =>
            /\ WithoutBounds(geom'[g]) = WithoutBounds(updateBatches(World(g)).g)
            /\ probe'[g].boundsComputed <=> geom[g].boundsDirty # geom[g].dirty
            /\ probe'[g].boundsComputed
                    => geom'[g]._bounds = calculateBounds(World(g))'.g._bounds
            /\ ~probe'[g].boundsComputed => geom'[g]._bounds = geom[g]._bounds
            /\ geom'[g].boundsDirty = geom'[g].dirty
            /\ probe[g].readAt = geom[g].dirty => ~probe'[g].boundsComputed]_vars

\* a second read of the bounds of a built geometry found the box cached
C18_Witness ==
    \E g \in Geoms :
        /\ probe[g].lastOp = "bounds"
        /\ ~probe[g].boundsComputed
        /\ geom[g]._bounds # <<>>
        /\ Len(geom[g].graphicsData) = 2

\* no element of the sequence occurs twice in it
NoDuplicates(seq) ==
    \A i, j \in DOMAIN seq : seq[i] = seq[j] => i = j

\* the batch parts, then the draw calls, held by the geometries and the pools
BatchPartHolders ==
    geom[1].batches \o geom[2].batches \o BATCH_POOL

DrawCallHolders ==
    geom[1].drawCalls \o geom[2].drawCalls \o DRAW_CALL_POOL

(***************************************************************************)
(* C19.  Pool ownership: under every interleaving of drawShape, clear,     *)
(* updateBatches and invalidate on two geometries sharing BATCH_POOL and   *)
(* DRAW_CALL_POOL, no BatchPart and no draw call is in the lists of two    *)
(* geometries, in a geometry's list and in a pool, or twice in a pool      *)
(* (nor twice in one list), and every object ever allocated is held        *)
(* somewhere.                                                              *)
(***************************************************************************)
C19_PoolOwnership ==
    /\ NoDuplicates(BatchPartHolders)
    /\ NoDuplicates(DrawCallHolders)
    /\ Range(BatchPartHolders) = DOMAIN batchParts
    /\ Range(DrawCallHolders) = DOMAIN drawCallObjects

\* geometry h built two parts and two draw calls and was invalidated; g
\* then built with one of each taken from the pools, the other still pooled
C19_Witness ==
    \E g, h \in Geoms :
        /\ g # h
        /\ probe[h].lastOp = "invalidate"
        /\ geom[h].graphicsData[1].fillStyle[1].visible
        /\ probe[g].lastOp = "updateBatches"
        /\ Len(geom[g].batches) = 1 /\ Len(BATCH_POOL) = 1
        /\ Len(geom[g].drawCalls) = 1 /\ Len(DRAW_CALL_POOL) = 1
        /\ Len(batchParts) = 2 /\ Len(drawCallObjects) = 2

\* the step is an updateBatches() of g that reached buildDrawCalls
CompiledBy(g) ==
    /\ UpdateBatches(g)
    /\ geom[g].cacheDirty # geom[g].dirty
    /\ geom'[g].cacheDirty = geom'[g].dirty
    /\ Len(geom'[g].batches) > 0
    /\ ~geom'[g].batchable

\* the base textures bound in the draw calls g holds after the step
BoundAfter(g) ==
    { drawCallObjects'[geom'[g].drawCalls[k]].texArray.elements[e] :
        <<k, e>> \in { p \in (DOMAIN geom'[g].drawCalls) \X (1..MAX_TEXTURES) :
            p[2] <= drawCallObjects'[geom'[g].drawCalls[p[1]]].texArray.count } }

(***************************************************************************)
(* C20.  Global batch tick: no step of any geometry decreases              *)
(* _globalBatch; a step that runs buildDrawCalls increases it strictly,    *)
(* stamps every texture it binds with a tick above the old _globalBatch    *)
(* and at most the new one, and leaves the stamps of the other textures    *)
(* alone; no texture ever carries a stamp above _globalBatch.  So the      *)
(* ticks of two compilations lie in disjoint ranges.                       *)
(***************************************************************************)
C20_TickMonotone ==
    [][/\ globalBatch' >= globalBatch
       /\ \A b \in BaseTextures : baseTex'[b].batchEnabled <= globalBatch'
       /\ \A g \in Geoms :
            CompiledBy(g) =>
                /\ globalBatch' > globalBatch
                /\ BoundAfter(g) # {}
                /\ \A b \in BaseTextures :
                     IF b \in BoundAfter(g)
                     THEN /\ baseTex'[b].batchEnabled > globalBatch
                          /\ baseTex'[b].batchEnabled <= globalBatch'
                     ELSE baseTex'[b].batchEnabled = baseTex[b].batchEnabled
       /\ (\A g \in Geoms : ~CompiledBy(g)) =>
                /\ globalBatch' = globalBatch
                /\ \A b \in BaseTextures :
                     baseTex'[b].batchEnabled = baseTex[b].batchEnabled]_vars

\* a second compilation has stamped two textures with two ticks, both above
\* the ticks of the first compilation
C20_Witness ==
    \E g \in Geoms :
        /\ Built(g)
        /\ Len(geom[g].drawCalls) = 2
        /\ baseTex[1].batchEnabled > 3
        /\ baseTex[2].batchEnabled > baseTex[1].batchEnabled
        /\ baseTex[2].batchEnabled = globalBatch

(***************************************************************************)
(* C21.  batchDirty signalling: an updateBatches() that changes the        *)
(* batches list or the drawCalls list, and a clear() of a geometry that    *)
(* holds shapes, increases batchDirty strictly; an updateBatches() that    *)
(* changes nothing of the geometry leaves batchDirty unchanged.            *)
(***************************************************************************)
C21_BatchDirtySignal ==
    [][\A g \in Geoms :
        /\ (/\ UpdateBatches(g)
            /\ \/ geom'[g].batches # geom[g].batches
               \/ geom'[g].drawCalls # geom[g].drawCalls)
                => geom'[g].batchDirty > geom[g].batchDirty
        /\ (UpdateBatches(g) /\ geom'[g] = geom[g])
                => geom'[g].batchDirty = geom[g].batchDirty
        /\ (Clear(g) /\ Len(geom[g].graphicsData) > 0)
                => geom'[g].batchDirty > geom[g].batchDirty]_vars

\* the shape record produces no vertex: no style of it is visible, or only
\* its fill is and the shape has fewer than three points
Hollow(data) ==
    /\ ~data.lineStyle[1].visible
    /\ data.fillStyle[1].visible => Len(build(data.shape)) < 6

AllHollow(g) ==
    /\ Len(geom[g].graphicsData) > 0
    /\ \A i \in DOMAIN geom[g].graphicsData : Hollow(geom[g].graphicsData[i])

\* updateBatches() on a geometry without shapes only sets batchable
EmptyUpdate(g) ==
    (UpdateBatches(g) /\ Len(geom[g].graphicsData) = 0)
        => geom'[g] = [geom[g] EXCEPT !.batchable = TRUE]

(***************************************************************************)
(* C22 as stated.  updateBatches() on a geometry without shapes sets       *)
(* batchable and changes nothing else; on a geometry whose shapes all      *)
(* produce no vertex it ends with no batch part, batchable true and no     *)
(* draw call.                                                              *)
(***************************************************************************)
C22_EmptyOrInvisible ==
    [][\A g \in Geoms :
        /\ EmptyUpdate(g)
        /\ (UpdateBatches(g) /\ AllHollow(g))
            => /\ geom'[g].batches = <<>>
               /\ geom'[g].batchable
               /\ geom'[g].drawCalls = <<>>]_vars

(***************************************************************************)
(* C22 amended.  The same, provided every style of the geometry, visible   *)
(* or not, is on a valid base texture; while one is not, updateBatches()   *)
(* changes nothing of the geometry, batchable included.                    *)
(***************************************************************************)
C22_EmptyOrInvisibleValid ==
    [][\A g \in Geoms :
        /\ EmptyUpdate(g)
        /\ (UpdateBatches(g) /\ AllHollow(g))
            => IF TexturesValid(g)
               THEN /\ geom'[g].batches = <<>>
                    /\ geom'[g].batchable
                    /\ geom'[g].drawCalls = <<>>
                    /\ geom'[g].points = <<>>
                    /\ geom'[g].cacheDirty = geom[g].dirty
               ELSE geom'[g] = geom[g]]_vars

\* a geometry that held a batch part was cleared, then a two-point polygon
\* with a visible fill was drawn and built
C22_Witness ==
    \E g \in Geoms :
        /\ Built(g)
        /\ AllHollow(g)
        /\ geom[g].graphicsData[1].fillStyle[1].visible
        /\ geom[g].batchable
        /\ geom[g].batches = <<>>
        /\ Len(BATCH_POOL) > 0

(***************************************************************************)
(* Loader claims.                                                          *)
(***************************************************************************)
IsStart(entry) == entry.sig = "start"

Starts(l) == Len(SelectSeq(l.log, IsStart))

\* the resource objects that still have work to do: queued, in the
\* before-middleware, in transfer, or in the after-middleware
Unfinished(l) == {r \in DOMAIN l.res : l.res[r].stage \notin {"done", "aborted"}}

(***************************************************************************)
(* C23.  Loader completion: in a load cycle onComplete is dispatched once  *)
(* (every onComplete closes the one cycle that is open), and when it is    *)
(* dispatched every resource of the loader has been dequeued and has gone  *)
(* through its after-middleware chain: none is queued, loading or parsed.  *)
(***************************************************************************)
C23_Completion ==
    [][Completes(loader') # Completes(loader)
        => /\ Completes(loader') = Completes(loader) + 1
           /\ Completes(loader') = Starts(loader')
           /\ loader'.tasks = <<>>
           /\ loader'.parsing = <<>>
           /\ \A r \in Registered(loader') :
                /\ loader'.res[r].dequeued
                /\ loader'.res[r].stage = "done"]_vars

\* the places of the trace of resource r where sig was recorded
Places(l, r, sigs) ==
    {k \in DOMAIN l.res[r].trace : l.res[r].trace[k].sig \in sigs}

\* the signals of the loader for a resource that has finished: onProgress
\* once, then one of onLoad and onError as resource.error tells, all after
\* the after-middleware and onAfterMiddleware
SignalsInOrder(l, r) ==
    /\ Cardinality(Places(l, r, {"progress"})) = 1
    /\ Cardinality(Places(l, r, {"load", "error"})) = 1
    /\ Cardinality(Places(l, r, {"afterMiddleware"})) = 1
    /\ Places(l, r, {IF l.res[r].error THEN "error" ELSE "load"}) # {}
    /\ \A k \in Places(l, r, {"use", "afterMiddleware"}),
          j \in Places(l, r, {"progress", "load", "error"}) : k < j
    /\ \A k \in Places(l, r, {"progress"}),
          j \in Places(l, r, {"load", "error"}) : k < j

\* a resource is finished once it has left _resourcesParsing
Finished(l, r) == l.res[r].stage = "done" /\ r \notin Range(l.parsing)

(***************************************************************************)
(* C24.  Loader per-resource signals: for every resource that finishes the *)
(* loader dispatches onProgress once and one of onLoad (no error) and      *)
(* onError (error), after the after-middleware chain of the resource and   *)
(* its onAfterMiddleware, and before the onComplete of the cycle: no       *)
(* onComplete lies between the add of the resource and its signals.        *)
(***************************************************************************)
C24_ResourceSignals ==
    \A r \in DOMAIN loader.res :
        /\ Finished(loader, r) => SignalsInOrder(loader, r)
        /\ \A k \in Places(loader, r, {"progress", "load", "error"}) :
                loader.res[r].trace[k].cycle = loader.res[r].addedAt

RunningError == "Cannot add resources while the loader is running."

\* the after-middleware timer t calls the spritesheet middleware on a
\* sheet whose image is not in resources: loader.add with a parentResource
AddsChild(t) ==
    /\ t \in loader.timers
    /\ t.type = "after"
    /\ loader.after[t.i + 1] = "sheet"
    /\ loader.res[t.r].kind = "sheet"
    /\ ~loader.res[t.r].error
    /\ loader.resources[ImageName(loader.res[t.r].name)] = 0
    /\ loader' = runAfter(Fired(t), t.r, t.i)

(***************************************************************************)
(* C25.  Loader add while running: while loading is true, add() without a  *)
(* parentResource throws 'Cannot add resources while the loader is         *)
(* running.' and leaves resources and the queue as they were; add() with a *)
(* parentResource (and a free name) is accepted: the new resource is       *)
(* stored, appended to the children of the parent and enqueued.            *)
(***************************************************************************)
C25_AddWhileRunning ==
    [][loader.loading =>
        /\ Add => /\ loader'.thrown = RunningError
                  /\ loader' = [loader EXCEPT !.thrown = RunningError]
        /\ \A t \in loader.timers :
            AddsChild(t) =>
                LET child == Len(loader.res) + 1
                    name == ImageName(loader.res[t.r].name)
                IN  /\ Len(loader'.res) = child
                    /\ loader'.thrown = ""
                    /\ loader'.resources = [loader.resources EXCEPT ![name] = child]
                    /\ loader'.res[child].name = name
                    /\ loader'.res[child].parent = t.r
                    /\ loader'.res[t.r].children
                            = Append(loader.res[t.r].children, child)
                    /\ loader'.tasks = Append(loader.tasks, child)
                    /\ Timer("process", 0, 0) \in loader'.timers]_vars

\* a spritesheet has added its image while loading, and an add of the user
\* has then been refused
C25_Witness ==
    /\ loader # NoLoader
    /\ loader.thrown = RunningError
    /\ loader.loading
    /\ \E r \in DOMAIN loader.res :
        /\ loader.res[r].parent # 0
        /\ loader.res[loader.res[r].parent].children = <<r>>

\* every name of resources maps to one resource object of that name, which
\* was pushed on the queue once
OneResourcePerName(l) ==
    \A n \in LoaderNames :
        l.resources[n] # 0
        => /\ l.resources[n] \in DOMAIN l.res
           /\ l.res[l.resources[n]].name = n
           /\ l.res[l.resources[n]].enqueued = 1
           /\ \A m \in LoaderNames : l.resources[m] = l.resources[n] => m = n

\* the user's add of "b" finds the name in resources
AddsAgain == AddPlain /\ loader.resources["b"] # 0

(***************************************************************************)
(* C26.  Loader unique names: add() with a name that is already a key of   *)
(* resources throws 'Resource named "<name>" already exists.', keeps the   *)
(* existing resource object and enqueues nothing; every name in resources  *)
(* maps to exactly one resource, enqueued exactly once since the last      *)
(* reset.                                                                  *)
(***************************************************************************)
C26_UniqueNames ==
    /\ [](loader # NoLoader => OneResourcePerName(loader))
    /\ [][AddsAgain =>
            loader' = [loader EXCEPT !.thrown = AlreadyExists("b")]]_vars

(***************************************************************************)
(* C26 amended.  The same, except that while the loader is loading an      *)
(* add() without a parentResource throws 'Cannot add resources while the   *)
(* loader is running.' whether or not the name exists; resources and the   *)
(* queue are left alone all the same.                                      *)
(***************************************************************************)
C26_UniqueNamesRunning ==
    /\ [](loader # NoLoader => OneResourcePerName(loader))
    /\ [][AddsAgain =>
            loader' = [loader EXCEPT !.thrown =
                            IF loader.loading THEN RunningError
                            ELSE AlreadyExists("b")]]_vars

\* after a reset the name was added again, and a further add was refused
\* because of the name
C26_Witness ==
    /\ loader # NoLoader
    /\ loader.resets > 0
    /\ loader.thrown = AlreadyExists("b")
    /\ loader.resources["b"] = 2
    /\ loader.res[1].name = "b"

(***************************************************************************)
(* C27.  Bounds freshness: whatever drawShape, drawHole, clear, reads of   *)
(* bounds and changes of texture validity came before, the box a read of   *)
(* bounds returns is the padded minimum and maximum of the points array as *)
(* it is after the updateBatches() call of that read.                      *)
(***************************************************************************)
C27_BoundsFresh ==
    [][\A g \in Geoms :
        Bounds(g) => geom'[g]._bounds = calculateBounds(World(g))'.g._bounds]_vars

(***************************************************************************)
(* C28.  Dirty-counter invariant: in every reachable state cacheDirty <=   *)
(* dirty and 0 <= shapeIndex <= graphicsData.length, and dirty ==          *)
(* cacheDirty only when shapeIndex == graphicsData.length; dirty grows on  *)
(* every drawShape, every drawHole on a geometry with a shape and every    *)
(* clear of a geometry with shapes.                                        *)
(***************************************************************************)
C28_DirtyCounters ==
    /\ [](\A g \in Geoms :
            /\ geom[g].cacheDirty <= geom[g].dirty
            /\ 0 <= geom[g].shapeIndex
            /\ geom[g].shapeIndex <= Len(geom[g].graphicsData)
            /\ geom[g].dirty = geom[g].cacheDirty
                    => geom[g].shapeIndex = Len(geom[g].graphicsData))
    /\ [][\A g \in Geoms :
            /\ DrawShape(g) => geom'[g].dirty > geom[g].dirty
            /\ (DrawHole(g) /\ ~drawHoleReturnsNull(World(g)))
                    => geom'[g].dirty > geom[g].dirty
            /\ (Clear(g) /\ Len(geom[g].graphicsData) > 0)
                    => geom'[g].dirty > geom[g].dirty]_vars

\* a shape was drawn on a built geometry and the build of it is deferred
\* by a texture that is not valid: the cache is behind, one record waits
C28_Witness ==
    \E g \in Geoms :
        /\ probe[g].lastOp = "updateBatches"
        /\ geom[g].cacheDirty >= 0
        /\ geom[g].cacheDirty < geom[g].dirty
        /\ geom[g].shapeIndex = 1
        /\ Len(geom[g].graphicsData) = 2

(***************************************************************************)
(* C29.  Invalid texture defers the build: while a fill or line style of   *)
(* some shape record references a base texture that is not valid,          *)
(* updateBatches() changes nothing of the geometry, of the pools and of    *)
(* the pooled objects, and tessellates nothing; when every texture is      *)
(* valid, updateBatches() leaves the geometry built (cacheDirty == dirty,  *)
(* every shape record processed), whether or not dirty changed since the   *)
(* deferred call.                                                          *)
(***************************************************************************)
C29_InvalidTextureDefers ==
    [][\A g \in Geoms :
        UpdateBatches(g) =>
            IF ~TexturesValid(g)
            THEN /\ geom'[g] = geom[g]
                 /\ probe'[g].tessLast = <<>>
                 /\ UNCHANGED <<batchParts, drawCallObjects, BATCH_POOL,
                                DRAW_CALL_POOL, globalBatch>>
            ELSE Len(geom[g].graphicsData) > 0
                 => /\ geom'[g].cacheDirty = geom[g].dirty
                    /\ geom'[g].shapeIndex = Len(geom[g].graphicsData)
                    /\ geom[g].shapeIndex < Len(geom[g].graphicsData)
                            => probe'[g].tessLast # <<>>]_vars

\* two updateBatches() in a row on a geometry that was never built, both
\* deferred by a texture that is not valid
C29_Witness ==
    \E g \in Geoms :
        /\ probe[g].lastOp = "updateBatches"
        /\ probe[g].repeated
        /\ ~TexturesValid(g)
        /\ geom[g].cacheDirty = -1
        /\ geom[g].points = <<>>
        /\ ~geom[g].batchable

\* the batch part at place k of the list batches of geometry g
PartAt(g, k) == batchParts[geom[g].batches[k]]

\* the parts of g, in list order, cover indices and the vertices of points
\* once each, and none is without vertices
PartsPartition(g) ==
    LET n == Len(geom[g].batches)
    IN  IF n = 0
        THEN Len(geom[g].indices) = 0 /\ Len(geom[g].points) = 0
        ELSE /\ PartAt(g, 1).start = 0
             /\ PartAt(g, 1).attribStart = 0
             /\ \A k \in 1..(n - 1) :
                    /\ PartAt(g, k + 1).start
                            = PartAt(g, k).start + PartAt(g, k).size
                    /\ PartAt(g, k + 1).attribStart
                            = PartAt(g, k).attribStart + PartAt(g, k).attribSize
             /\ PartAt(g, n).start + PartAt(g, n).size = Len(geom[g].indices)
             /\ 2 * (PartAt(g, n).attribStart + PartAt(g, n).attribSize)
                    = Len(geom[g].points)
             /\ \A k \in 1..n : PartAt(g, k).attribSize > 0

(***************************************************************************)
(* C30.  Batch parts partition the buffers: after every build, first or    *)
(* incremental, the parts of batches in list order cover the index array   *)
(* and the vertex array exactly once each: the first starts at index 0 and *)
(* vertex 0, each next one starts where the one before it ends, the last   *)
(* ends at indices.length and points.length / 2, and every part has        *)
(* attribSize > 0.  Between builds the buffers and the parts do not        *)
(* change or are emptied together, so this holds in every state.           *)
(***************************************************************************)
C30_PartsPartition ==
    \A g \in Geoms : PartsPartition(g)

\* an incremental build has added a part to the two parts of the build
\* before it
C30_Witness ==
    \E g \in Geoms :
        /\ Built(g)
        /\ Len(geom[g].batches) = 3
        /\ probe[g].tessLast = <<2>>
        /\ PartAt(g, 3).start > 0

\* the draw call at place k of the list drawCalls of geometry g
CallAt(g, k) == drawCallObjects[geom[g].drawCalls[k]]

RECURSIVE PartSizes(_, _)
PartSizes(g, k) ==
    IF k > Len(geom[g].batches) THEN 0
    ELSE PartAt(g, k).size + PartSizes(g, k + 1)

RECURSIVE CallSizes(_, _)
CallSizes(g, k) ==
    IF k > Len(geom[g].drawCalls) THEN 0
    ELSE CallAt(g, k).size + CallSizes(g, k + 1)

\* the draw call that holds the batch part at place k: the last one that
\* starts at or before the part
CallOf(g, k) ==
    SetMax({j \in DOMAIN geom[g].drawCalls : CallAt(g, j).start <= PartAt(g, k).start})

CallsPartition(g) ==
    LET n == Len(geom[g].drawCalls)
    IN  /\ CallAt(g, 1).start = 0
        /\ \A j \in 1..(n - 1) :
                CallAt(g, j + 1).start = CallAt(g, j).start + CallAt(g, j).size
        /\ CallSizes(g, 1) = PartSizes(g, 1)
        /\ \A j \in 1..n : CallAt(g, j).size > 0
        /\ \A k \in DOMAIN geom[g].batches :
                /\ CallAt(g, CallOf(g, k)).start <= PartAt(g, k).start
                /\ PartAt(g, k).start + PartAt(g, k).size
                        <= CallAt(g, CallOf(g, k)).start + CallAt(g, CallOf(g, k)).size
        /\ \A k \in 1..(Len(geom[g].batches) - 1) : CallOf(g, k) <= CallOf(g, k + 1)

(***************************************************************************)
(* C31.  Draw calls partition the index buffer in draw order: after every  *)
(* buildDrawCalls the draw calls in list order start at 0 and follow one   *)
(* another without gap, their sizes sum to the index count of the batch    *)
(* parts, each has size > 0, and each batch part lies inside one draw      *)
(* call, in batch order.                                                   *)
(***************************************************************************)
C31_DrawCallsPartition ==
    \A g \in Geoms : Len(geom[g].drawCalls) > 0 => CallsPartition(g)

\* a build has made three draw calls, the last batch part is in the third
C31_Witness ==
    \E g \in Geoms :
        /\ Built(g)
        /\ Len(geom[g].drawCalls) = 3
        /\ Len(geom[g].batches) > 3
        /\ CallOf(g, Len(geom[g].batches)) = 3

(***************************************************************************)
(* Degenerate usages.  A visible style is degenerate when its tessellation *)
(* appends no vertex.                                                      *)
(***************************************************************************)
\* the number of vertices the tessellation of style j (0: fill, 1: line) of
\* shape record i appends, for the shape record as the last build left it
Appended(g, i, j) ==
    (Len(tessellateStyle(World(g), i, j).g.points) - Len(geom[g].points)) \div 2

Degenerate(g, i, j) ==
    styleAt(World(g), i, j).visible /\ Appended(g, i, j) = 0

\* the logged usages of shape record i, in the order of the log
UsagesOf(g, i) == SelectSeq(probe[g].usages, LAMBDA u : u.shape = i)

\* style and vertex count of the usages shape record i should have logged:
\* the fill, then the line, each when it is visible and not degenerate
ProductiveStyles(g, i) ==
    LET one(j) ==
            IF styleAt(World(g), i, j).visible /\ Appended(g, i, j) > 0
            THEN <<[style |-> styleAt(World(g), i, j), size |-> Appended(g, i, j)]>>
            ELSE <<>>
    IN  one(0) \o one(1)

FillBeforeLine(g, i) ==
    LET us == UsagesOf(g, i)
    IN  /\ [k \in 1..Len(us) |-> [style |-> us[k].style, size |-> us[k].size]]
                = ProductiveStyles(g, i)
        /\ Len(us) = 2 => us[2].attribStart = us[1].attribStart + us[1].size

(***************************************************************************)
(* C32.  Degenerate styles are skipped: a visible fill or line whose       *)
(* tessellation appends zero vertices opens no batch part (every batch     *)
(* part holds the vertices of a logged usage) and closes none (two         *)
(* consecutive productive usages of identical styles lie in one part,      *)
(* whatever degenerate usages lie between them); within a shape the        *)
(* vertices of the fill precede those of the line.                         *)
(***************************************************************************)
C32_DegenerateSkipped ==
    \A g \in Geoms :
        Built(g) =>
            /\ \A k \in DOMAIN geom[g].batches :
                    \E n \in DOMAIN probe[g].usages : probe[g].usages[n].part = k
            /\ \A n \in 1..(Len(probe[g].usages) - 1) :
                    Differing(probe[g].usages[n].style,
                              probe[g].usages[n + 1].style) = 0
                        => probe[g].usages[n + 1].part = probe[g].usages[n].part
            /\ \A i \in 0..(Len(geom[g].graphicsData) - 1) : FillBeforeLine(g, i)

\* a square, a degenerate fill on another texture and a triangle with fill
\* and line were built: square and triangle fill share the first batch part
C32_Witness ==
    \E g \in Geoms :
        /\ Built(g)
        /\ Len(geom[g].graphicsData) = 3
        /\ Len(probe[g].usages) = 3
        /\ Degenerate(g, 1, 0)
        /\ Differing(styleAt(World(g), 1, 0), probe[g].usages[1].style) = 1
        /\ Len(UsagesOf(g, 0)) = 1
        /\ Len(UsagesOf(g, 2)) = 2
        /\ probe[g].usages[2].part = probe[g].usages[1].part
        /\ probe[g].usages[3].part = 2

\* the packed colour of a style: what addColors writes for its color and alpha
PackedColour(style) == premultiplyTint(swizzle(style.color), style.alpha)

\* the places in colors of the vertices usage u appended
VerticesOf(u) == (u.attribStart + 1)..(u.attribStart + u.size)

(***************************************************************************)
(* C33.  Colour fidelity under merging: after buildDrawCalls the colour    *)
(* written for every vertex is the packed colour of the style of the       *)
(* usage that appended the vertex.                                         *)
(***************************************************************************)
C33_ColourFidelity ==
    \A g \in Geoms :
        (Built(g) /\ ~geom[g].batchable /\ Len(geom[g].batches) > 0)
            => \A n \in DOMAIN probe[g].usages :
                    \A v \in VerticesOf(probe[g].usages[n]) :
                        geom[g].colors[v] = PackedColour(probe[g].usages[n].style)

\* the batch part whose index range holds entry k (1-based) of indices
PartOfIndex(g, k) ==
    PartAt(g, CHOOSE n \in DOMAIN geom[g].batches :
                /\ PartAt(g, n).start <= k - 1
                /\ k - 1 < PartAt(g, n).start + PartAt(g, n).size)

(***************************************************************************)
(* C34.  Index rebasing for direct batching: whenever batchable is true    *)
(* after a build with at least one batch part, entry k of indicesUint16 is *)
(* indices[k] minus the attribStart of the batch part that holds k, and    *)
(* lies in [0, attribSize) of that part, after first and incremental       *)
(* builds alike; indices keeps the absolute vertex numbers.                *)
(***************************************************************************)
C34_IndexRebasing ==
    \A g \in Geoms :
        (Built(g) /\ geom[g].batchable /\ Len(geom[g].batches) > 0)
            => /\ Len(geom[g].indicesUint16.data) = Len(geom[g].indices)
               /\ PartsPartition(g)
               /\ \A k \in DOMAIN geom[g].indices :
                    LET part == PartOfIndex(g, k)
                    IN  /\ geom[g].indicesUint16.data[k]
                                = geom[g].indices[k] - part.attribStart
                        /\ geom[g].indicesUint16.data[k] >= 0
                        /\ geom[g].indicesUint16.data[k] < part.attribSize
                        /\ geom[g].indices[k] < VertexCount(g)

\* an incremental build that appended nothing packed the index buffer of
\* two batch parts a second time
C34_Witness ==
    \E g \in Geoms :
        /\ Built(g)
        /\ geom[g].batchable
        /\ Len(geom[g].batches) = 2
        /\ PartAt(g, 2).attribStart > 0
        /\ probe[g].tessLast = <<2>>
        /\ Degenerate(g, 2, 0)
        /\ Len(UsagesOf(g, 2)) = 0

\* the step is a call of load(cb)
IsLoadCall == loader'.loads = loader.loads + 1

(***************************************************************************)
(* C35.  load() while loading: a call of load(cb) while loading is true    *)
(* only registers cb as a listener of onComplete: no signal is dispatched, *)
(* progress, the progress chunks, the resources, the queue and its timers  *)
(* stay as they are.                                                       *)
(***************************************************************************)
C35_LoadWhileLoading ==
    [][(loader.loading /\ IsLoadCall)
            => loader' = [loader EXCEPT !.listeners = @ + 1,
                                        !.loads = @ + 1,
                                        !.thrown = ""]]_vars

\* load(cb) was called a second time while a resource of the first call was
\* on its way: two callbacks wait for the one onComplete
C35_Witness ==
    /\ loader.loading
    /\ loader.loads = 2
    /\ loader.listeners = 2
    /\ loader.log = <<[sig |-> "start", i |-> 0]>>
    /\ \E r \in DOMAIN loader.res : loader.res[r].isLoading

\* the resources the queue has started and that have not called back
RunningTasks(l) ==
    {r \in DOMAIN l.res :
        l.res[r].stage \in {"before", "loading"} /\ ~l.res[r].dequeued}

(***************************************************************************)
(* C36.  load() with an idle queue: a call of load() while loading is      *)
(* false and the queue holds no pending and no running task dispatches     *)
(* onStart and then onComplete before it returns, and leaves loading false *)
(* and progress at 100.                                                    *)
(***************************************************************************)
C36_LoadIdle ==
    [][(/\ ~loader.loading
        /\ IsLoadCall
        /\ Len(loader.tasks) = 0
        /\ RunningTasks(loader) = {})
            => /\ loader'.log = loader.log \o
                    <<[sig |-> "start", i |-> 0],
                      [sig |-> "complete", i |-> loader.listeners + 1]>>
               /\ ~loader'.loading
               /\ loader'.progress = Rat(MAX_PROGRESS, 1)]_vars

\* the calls of before-middleware ("pre"), of resource.load() ("xhr") and of
\* after-middleware ("use") recorded for resource r, in the order they
\* were made
IsCall(entry) == entry.sig \in {"pre", "xhr", "use"}

Calls(l, r) ==
    LET t == SelectSeq(l.res[r].trace, IsCall)
    IN  [k \in 1..Len(t) |-> <<t[k].sig, t[k].i>>]

CountOf(l, r, sig) == Cardinality(Places(l, r, {sig}))

\* the before-middleware in registration order, then the load, which needs
\* every before-middleware to have run, then the after-middleware in
\* registration order, which need the resource to be complete
InRegistrationOrder(l, r) ==
    LET m == CountOf(l, r, "pre")
        x == CountOf(l, r, "xhr")
        n == CountOf(l, r, "use")
    IN  /\ m <= Len(l.before)
        /\ x <= 1
        /\ n <= Len(l.after)
        /\ Calls(l, r) = [k \in 1..m |-> <<"pre", k>>]
                            \o [k \in 1..x |-> <<"xhr", 0>>]
                            \o [k \in 1..n |-> <<"use", k>>]
        /\ x = 1 => m = Len(l.before)
        /\ n > 0 => l.res[r].isComplete /\ ~l.res[r].isLoading

\* a resource that is complete sees no further before-middleware and no
\* resource.load()
KeptComplete ==
    \A r \in DOMAIN loader.res :
        loader.res[r].isComplete
            => Places(loader', r, {"pre", "xhr"}) = Places(loader, r, {"pre", "xhr"})

\* the after-middleware that ran last for r is the spritesheet middleware,
\* and it passed the error of its image to next
PassedError(l, r) ==
    /\ CountOf(l, r, "use") > 0
    /\ l.after[CountOf(l, r, "use")] = "sheet"
    /\ \E c \in DOMAIN l.res :
            /\ l.res[c].parent = r
            /\ l.res[c].name = ImageName(l.res[r].name)
            /\ l.res[c].error

\* the second after-middleware of a sheet with an image ran only after the
\* spritesheet middleware had called next
OneAtATime(l, r) ==
    (CountOf(l, r, "use") > 1 /\ \E c \in DOMAIN l.res : l.res[c].parent = r)
        => l.res[r].spritesheet

IsResetCall == loader'.resets = loader.resets + 1

\* reset() was called and load() has not been called since: the log holds
\* no onStart behind the mark of the last reset
QuietSinceReset(l) ==
    \E k \in DOMAIN l.log :
        /\ l.log[k].sig = "reset"
        /\ \A j \in (k + 1)..Len(l.log) : l.log[j].sig # "start"

\* the signals the loader has dispatched for resource r
SignalsOf(l, r) == Places(l, r, {"progress", "load", "error"})

(***************************************************************************)
(* C38.  Loader reset isolation: when reset() returns, loading is false,   *)
(* progress is 0 and resources is empty; from then until load() is called  *)
(* again no onProgress, onLoad, onError or onComplete is dispatched and    *)
(* progress does not change, whatever the resources of before the reset    *)
(* were doing at the moment of the reset.                                  *)
(***************************************************************************)
C38_ResetIsolation ==
    /\ [][IsResetCall
            => /\ ~loader'.loading
               /\ loader'.progress = Rat(0, 1)
               /\ Registered(loader') = {}]_vars
    /\ [][(QuietSinceReset(loader) /\ QuietSinceReset(loader'))
            => /\ loader'.progress = loader.progress
               /\ Completes(loader') = Completes(loader)
               /\ \A r \in DOMAIN loader.res :
                    SignalsOf(loader', r) = SignalsOf(loader, r)]_vars

\* a load cycle is open: the last entry of the log of the loader is an
\* onStart, with no onComplete and no reset behind it
CycleOpen(l) == Len(l.log) > 0 /\ Last(l.log).sig = "start"

ProgressInRange(l) ==
    /\ ~RatLess(l.progress, Rat(0, 1))
    /\ ~RatLess(Rat(MAX_PROGRESS, 1), l.progress)

(***************************************************************************)
(* C39.  Loader progress and loading flag: progress is always within       *)
(* [0, 100]; it is 0 after the dispatch of onStart, never decreases while  *)
(* the cycle is open, and is 100 when onComplete is dispatched; loading is *)
(* true exactly while a cycle is open, from onStart to onComplete.         *)
(***************************************************************************)
C39_ProgressAndLoading ==
    /\ [](ProgressInRange(loader) /\ (loader.loading <=> CycleOpen(loader)))
    /\ [][/\ (Starts(loader') > Starts(loader) /\ CycleOpen(loader'))
                => loader'.progress = Rat(0, 1)
          /\ Completes(loader') > Completes(loader)
                => loader'.progress = Rat(MAX_PROGRESS, 1) /\ ~loader'.loading
          /\ (CycleOpen(loader) /\ CycleOpen(loader')
                    /\ Starts(loader') = Starts(loader))
                => ~RatLess(loader'.progress, loader.progress)]_vars

\* the second cycle is open and one of the two resources of the loader has
\* finished in it: progress lies strictly between 0 and 100
C39_Witness ==
    /\ loader # NoLoader
    /\ loader.loading
    /\ Starts(loader) = 2
    /\ RatLess(Rat(0, 1), loader.progress)
    /\ RatLess(loader.progress, Rat(MAX_PROGRESS, 1))
    /\ \E r \in DOMAIN loader.res :
            /\ Finished(loader, r)
            /\ loader.res[r].trace[Len(loader.res[r].trace)].cycle = 1

\* the calls of the spritesheet middleware on resource r
SheetUses(l, r) ==
    {k \in Places(l, r, {"use"}) : l.after[l.res[r].trace[k].i] = "sheet"}

\* the calls of next the spritesheet middleware made for resource r
NextCalls(l, r) == Places(l, r, {"next"})

\* the resources added with r as parentResource
ChildrenOf(l, r) == {c \in DOMAIN l.res : l.res[c].parent = r}

\* the skip test of the middleware: no data, not JSON or no frames, or the
\* image resource exists
Skips(l, r) ==
    \/ l.res[r].error
    \/ l.res[r].kind # "sheet"
    \/ l.resources[ImageName(l.res[r].name)] # 0

\* the step is the call of the spritesheet middleware from timer t
CallsSheet(t) ==
    /\ t.type = "after"
    /\ loader.after[t.i + 1] = "sheet"
    /\ loader' = runAfter(Fired(t), t.r, t.i)

\* next is called at most once; the middleware adds at most one resource,
\* the image; once next was called for a sheet with an image, the image
\* has completed and been through its after-middleware, next was given an
\* error exactly if the image failed, and the spritesheet is attached if
\* it did not
NextOnceAfterImage(l, r) ==
    /\ Cardinality(NextCalls(l, r)) <= Cardinality(SheetUses(l, r))
    /\ Cardinality(SheetUses(l, r)) <= 1
    /\ Cardinality(ChildrenOf(l, r)) <= 1
    /\ \A c \in ChildrenOf(l, r) : l.res[c].name = ImageName(l.res[r].name)
    /\ l.res[r].spritesheet => NextCalls(l, r) # {} /\ ChildrenOf(l, r) # {}
    /\ \A k \in NextCalls(l, r), c \in ChildrenOf(l, r) :
            /\ l.res[c].isComplete
            /\ Places(l, c, {"afterMiddleware"}) # {}
            /\ (l.res[r].trace[k].i = 1) <=> l.res[c].error
            /\ l.res[r].spritesheet <=> ~l.res[c].error

\* what a call of the middleware does at once
ImmediateOrImage(t) ==
    IF Skips(loader, t.r)
    THEN /\ Len(loader'.res) = Len(loader.res)
         /\ loader'.resources = loader.resources
         /\ Cardinality(NextCalls(loader', t.r)) = 1
         /\ \A k \in NextCalls(loader', t.r) : loader'.res[t.r].trace[k].i = 0
    ELSE /\ Len(loader'.res) = Len(loader.res) + 1
         /\ ChildrenOf(loader', t.r) = {Len(loader.res) + 1}
         /\ loader'.resources =
                [loader.resources EXCEPT ![ImageName(loader.res[t.r].name)] =
                                            Len(loader.res) + 1]
         /\ NextCalls(loader', t.r) = {}

C40_WitnessSkipped ==
    \E r \in DOMAIN loader.res :
        /\ loader.res[r].kind = "sheet"
        /\ ~loader.res[r].error
        /\ Finished(loader, r)
        /\ Cardinality(NextCalls(loader, r)) = 1
        /\ ChildrenOf(loader, r) = {}
        /\ loader.resources["a_image"] # 0

====
